---- MODULE Spec2Model ----
(***************************************************************************)
(* Traffic monitoring analytics pipeline: VehicleTracker, TrafficMonitor,  *)
(* AnomalyDetector and the VideoAnalysisOrchestrator session lifecycle.    *)
(*                                                                         *)
(* Units.  Timestamps are integers counting ticks of 1/TicksPerSec second; *)
(* coordinates are integer pixels.  Track ids are naturals: n stands for   *)
(* the string "obj_<n>" and 0 for the empty id "" a detector hands out.    *)
(***************************************************************************)
EXTENDS Integers, Sequences, FiniteSets, TLC

(***************************************************************************)
(* Bounds of the model                                                     *)
(***************************************************************************)
TicksPerSec == 2
MaxTime == 6
MaxIds == 2
\* configuration of the components, chosen small (defaults 30 and 20.0)
max_history == 2
stop_time_threshold == 1

(***************************************************************************)
(* Program constants                                                       *)
(***************************************************************************)
MatchThreshold == 50
max_age == 2
time_window == 1
StoppedSpeed == 5
FrameQueueSize == 5
FrameStride == 3

\* an absent bbox, and the center None of a detection without one
NoBBox == <<>>
NoCenter == <<>>

\* the centers a detection can have: two on a row 30px apart and one 40px
\* below the first, so that the distances between them are 30, 40 and 50
Points == {<<30, 0>>, <<60, 0>>, <<30, 40>>}
\* the 20x20 bbox around a center
BoxAt(p) == <<p[1] - 10, p[2] - 10, p[1] + 10, p[2] + 10>>
BBoxes == {BoxAt(p) : p \in Points}

VehicleClasses == {"car", "motorbike", "truck", "bus"}
Classes == {"car", "truck", "person"}
Directions == {"up", "down", "left", "right"}

\* virtual lines of check_line_crossing calls: a vertical one between the
\* columns of the grid and a horizontal one between its rows
Lines == { <<<<45, -10>>, <<45, 50>>>>,
           <<<<-10, 20>>, <<70, 20>>>> }

\* those and a vertical line through a column of the grid, which centers touch
AllLines == Lines \cup { <<<<30, -10>>, <<30, 50>>>> }

\* virtual_line configurations of the monitor
LineConfigs == { <<<<45, -10>>, <<45, 50>>, "right">>,
                 <<<<-10, 20>>, <<70, 20>>, "up">> }

\* gaps between frames: one tick, and one tick more than max_age
Dts == {1, max_age * TicksPerSec + 1}

VARIABLES
  tracking_history,  \* VehicleTracker: id -> sequence of <<x, y, timestamp>>
  last_positions,    \* VehicleTracker: ordered dict, sequence of [id, pos]
  next_id,           \* VehicleTracker
  counted_ids,       \* VehicleTracker
  virtual_line,      \* TrafficMonitor: <<p1, p2, direction>>
  traffic_data,      \* TrafficMonitor: the TrafficData aggregate
  current_hour,      \* TrafficMonitor
  stopped_vehicles,  \* AnomalyDetector: id -> [start_time, position, vehicle_type]
  clock,             \* timestamp of the latest frame of the video (0 before the first)
  tracked,           \* detections returned by the latest update_tracks
  stage,             \* the stage of _process_single_frame that runs next
  op,                \* history: whether the latest call was a reset() of used state
  arrivals,          \* history: id -> samples applied to the track, counted up to max_history + 1
  returned_true,     \* history: ids check_line_crossing returned True for -> whether
                     \*          the track has received a sample since
  forward,           \* history: id -> classes it was seen as when its centers crossed
                     \*          the monitor's line in the configured direction
  credit,            \* history: id -> vehicle types the monitor counted for it
  visible,           \* history: hour -> vehicle type -> the most detections of the type
                     \*          in one frame the monitor processed in that hour
  is_analyzing,      \* VideoAnalysisOrchestrator
  is_paused,         \* VideoAnalysisOrchestrator
  should_stop,       \* VideoAnalysisOrchestrator
  current_video_id,  \* VideoAnalysisOrchestrator: 0 for None
  analysis_thread,   \* VideoAnalysisOrchestrator: the thread started last, 0 for None
  orch_counted_ids,  \* VideoAnalysisOrchestrator._counted_ids
  progress_queue,    \* VideoAnalysisOrchestrator
  stats_queue,       \* VideoAnalysisOrchestrator
  frame_queue,       \* VideoAnalysisOrchestrator: at most FrameQueueSize entries
  workers,           \* the threads running _analyze_video_worker: thread ->
                     \*   [pc, work, woken, abandoned] with the frame in work
  video_processor,   \* the VideoProcessor the workers share: [open, pos]
  videos,            \* video_repo: the status of the record of each video id
  detection_events,  \* detection_event_repo: <<video_id, track_id, object_type>>
  anomaly_events,    \* anomaly_event_repo: <<video_id, anomaly_type, object_id, timestamp>>
  caller,            \* the thread that calls the orchestrator: "idle", or "joining"
                     \*   inside stop_analysis
  call,              \* history: the latest start or get_density_level call of the
                     \*          caller and what it returned
  detection_batch,   \* updated_video_orchestrator: crossing records not yet flushed
  anomaly_batch,     \* updated_video_orchestrator: anomaly records not yet flushed
  minute_aggregations, \* updated_video_orchestrator: minute -> vehicle type -> count
  current_minute,    \* updated_video_orchestrator
  detection_repo,    \* the records handed to bulk_insert_detections, in order
  anomaly_repo       \* the records handed to bulk_insert_anomalies, in order

trackerVars == <<tracking_history, last_positions, next_id, counted_ids>>
monitorVars == <<virtual_line, traffic_data, current_hour>>
componentVars == <<tracking_history, last_positions, next_id, counted_ids, virtual_line,
                   traffic_data, current_hour, stopped_vehicles>>
traceVars == <<clock, tracked, stage, op, arrivals, returned_true, forward, credit, visible>>
orchVars == <<is_analyzing, is_paused, should_stop, current_video_id, analysis_thread,
              orch_counted_ids, progress_queue, stats_queue, frame_queue, workers,
              video_processor, videos, detection_events, anomaly_events, caller, call>>
batchVars == <<detection_batch, anomaly_batch, minute_aggregations, current_minute,
               detection_repo, anomaly_repo>>
vars == <<tracking_history, last_positions, next_id, counted_ids, virtual_line,
          traffic_data, current_hour, stopped_vehicles, clock, tracked, stage, op, arrivals,
          returned_true, forward, credit, visible, is_analyzing, is_paused, should_stop,
          current_video_id, analysis_thread, orch_counted_ids, progress_queue, stats_queue,
          frame_queue, workers, video_processor, videos, detection_events, anomaly_events,
          caller, call, detection_batch, anomaly_batch, minute_aggregations, current_minute,
          detection_repo, anomaly_repo>>

(***************************************************************************)
(* Detection entity                                                        *)
(***************************************************************************)
\* Detection.__post_init__: the center is derived from the bbox when there is one
CenterMutant(bbox) ==
  IF bbox = NoBBox THEN <<0, 0>>
  ELSE <<(bbox[1] + bbox[3]) \div 2, (bbox[2] + bbox[4]) \div 2>>

Center(bbox) ==
  IF bbox = NoBBox THEN NoCenter
  ELSE <<(bbox[1] + bbox[3]) \div 2, (bbox[2] + bbox[4]) \div 2>>

Detection(id, class_name, bbox) ==
  [id |-> id, class_name |-> class_name, bbox |-> bbox, center |-> Center(bbox)]

(***************************************************************************)
(* VehicleTracker                                                          *)
(***************************************************************************)
Dist2(a, b) == (a[1] - b[1]) * (a[1] - b[1]) + (a[2] - b[2]) * (a[2] - b[2])

\* ordered-dict helpers for last_positions / current_positions
DictKeys(d) == {d[i].id : i \in 1..Len(d)}
DictGet(d, k) == d[CHOOSE i \in 1..Len(d) : d[i].id = k].pos
DictSetMutant(d, k, v) ==
  IF k \in DictKeys(d) THEN d ELSE Append(d, [id |-> k, pos |-> v])

DictSet(d, k, v) ==
  IF k \in DictKeys(d)
  THEN [i \in 1..Len(d) |-> IF d[i].id = k THEN [id |-> k, pos |-> v] ELSE d[i]]
  ELSE Append(d, [id |-> k, pos |-> v])

\* the inner loop of update_tracks: the nearest track under the threshold,
\* the first one met on ties (0 stands for best_id = None, -1 for inf)
WithinThresholdMutant(d2) == d2 < MatchThreshold

WithinThreshold(d2) == d2 < MatchThreshold * MatchThreshold

\* distance < min_distance, where min_d2 = -1 stands for float('inf')
CloserMutant(d2, min_d2) == TRUE

Closer(d2, min_d2) == min_d2 = -1 \/ d2 < min_d2

RECURSIVE BestMatch(_, _, _, _, _)
BestMatch(lp, i, center, best_id, min_d2) ==
  IF i > Len(lp) THEN best_id
  ELSE LET d2 == Dist2(center, lp[i].pos) IN
       IF WithinThreshold(d2) /\ Closer(d2, min_d2)
       THEN BestMatch(lp, i + 1, center, lp[i].id, d2)
       ELSE BestMatch(lp, i + 1, center, best_id, min_d2)

\* _update_history: a deque(maxlen=max_history) per id
UpdateHistoryMutant(th, id, pos, t) ==
  LET h == IF id \in DOMAIN th THEN th[id] ELSE <<>>
  IN [k \in DOMAIN th \cup {id} |-> IF k = id THEN Append(h, <<pos[1], pos[2], t>>) ELSE th[k]]

UpdateHistory(th, id, pos, t) ==
  LET h == IF id \in DOMAIN th THEN th[id] ELSE <<>>
      s == <<pos[1], pos[2], t>>
      h2 == IF Len(h) >= max_history THEN Append(Tail(h), s) ELSE Append(h, s)
  IN [k \in DOMAIN th \cup {id} |-> IF k = id THEN h2 ELSE th[k]]

\* _cleanup_old_tracks
StaleIdsMutant(th, t) ==
  {id \in DOMAIN th : Len(th[id]) > 0 /\ t - th[id][Len(th[id])][3] > (max_age + 1) * TicksPerSec}

StaleIds(th, t) ==
  {id \in DOMAIN th : Len(th[id]) > 0 /\ t - th[id][Len(th[id])][3] > max_age * TicksPerSec}

CleanupHistory(th, t) == [k \in DOMAIN th \ StaleIds(th, t) |-> th[k]]

CleanupPositions(lp, th, t) == SelectSeq(lp, LAMBDA e : e.id \notin StaleIds(th, t))

\* first loop of update_tracks over detections[i..]; s carries
\* [dets, th, cp, unmatched] where unmatched lists detection indices
RECURSIVE MatchLoop(_, _, _, _, _)
MatchLoop(dets, i, lp, t, s) ==
  IF i > Len(dets) THEN s
  ELSE LET d == dets[i] IN
    IF d.center = NoCenter THEN MatchLoop(dets, i + 1, lp, t, s)
    ELSE LET best_id == BestMatch(lp, 1, d.center, 0, -1) IN
      IF best_id # 0
      THEN MatchLoop(dets, i + 1, lp, t,
             [s EXCEPT !.dets[i].id = best_id,
                       !.cp = DictSet(s.cp, best_id, d.center),
                       !.th = UpdateHistory(s.th, best_id, d.center, t),
                       !.applied = Append(s.applied, <<best_id, d.center[1], d.center[2], t>>)])
      ELSE MatchLoop(dets, i + 1, lp, t,
             [s EXCEPT !.unmatched = Append(s.unmatched, i)])

\* self.next_id += 1
NextIdMutant(new_id) == new_id

NextId(new_id) == new_id + 1

\* second loop of update_tracks: fresh sequential ids for the unmatched
RECURSIVE NewIdLoop(_, _, _)
NewIdLoop(j, t, s) ==
  IF j > Len(s.unmatched) THEN s
  ELSE LET i == s.unmatched[j]
           new_id == s.nid
           c == s.dets[i].center
       IN NewIdLoop(j + 1, t,
            [s EXCEPT !.dets[i].id = new_id,
                      !.nid = NextId(new_id),
                      !.cp = DictSet(s.cp, new_id, c),
                      !.th = UpdateHistory(s.th, new_id, c, t),
                      !.applied = Append(s.applied, <<new_id, c[1], c[2], t>>)])

\* update_tracks as a function of the tracker state; the result carries the
\* detections with their ids, the new tracker fields and the samples applied
UpdateTracksResult(dets, t, th, lp, nid) ==
  LET s0 == [dets |-> dets, th |-> th, cp |-> <<>>, unmatched |-> <<>>,
             nid |-> nid, applied |-> <<>>]
      s1 == MatchLoop(dets, 1, lp, t, s0)
      s2 == NewIdLoop(1, t, s1)
  IN [dets |-> s2.dets,
      th |-> CleanupHistory(s2.th, t),
      lp |-> CleanupPositions(s2.cp, s2.th, t),
      nid |-> s2.nid,
      applied |-> s2.applied,
      purged |-> StaleIds(s2.th, t)]

\* _line_intersection with its nested ccw
ccw(A, B, C) == (C[2] - A[2]) * (B[1] - A[1]) > (B[2] - A[2]) * (C[1] - A[1])

line_intersection(p1, p2, p3, p4) ==
  /\ ccw(p1, p3, p4) # ccw(p2, p3, p4)
  /\ ccw(p1, p2, p3) # ccw(p1, p2, p4)

\* the direction test of check_line_crossing: TRUE when the call goes on
DirectionOkMutant(direction, prev_pos, curr_pos) == TRUE

DirectionOk(direction, prev_pos, curr_pos) ==
  IF direction = "down" /\ curr_pos[2] <= prev_pos[2] THEN FALSE
  ELSE IF direction = "up" /\ curr_pos[2] >= prev_pos[2] THEN FALSE
  ELSE IF direction = "left" /\ curr_pos[1] >= prev_pos[1] THEN FALSE
  ELSE IF direction = "right" /\ curr_pos[1] <= prev_pos[1] THEN FALSE
  ELSE TRUE

\* the membership test of check_line_crossing on counted_ids
AlreadyCountedMutant(obj_id, counted) == FALSE

AlreadyCounted(obj_id, counted) == obj_id \in counted

\* check_line_crossing: the value returned; on TRUE the id joins counted_ids
CheckLineCrossingResult(obj_id, line_start, line_end, direction, th, counted) ==
  IF obj_id \notin DOMAIN th THEN FALSE
  ELSE LET history == th[obj_id] IN
    IF Len(history) < 2 THEN FALSE
    ELSE LET prev_pos == <<history[Len(history) - 1][1], history[Len(history) - 1][2]>>
             curr_pos == <<history[Len(history)][1], history[Len(history)][2]>>
         IN IF ~line_intersection(prev_pos, curr_pos, line_start, line_end) THEN FALSE
            ELSE IF ~DirectionOk(direction, prev_pos, curr_pos) THEN FALSE
            ELSE IF AlreadyCounted(obj_id, counted) THEN FALSE
            ELSE TRUE


\* integer square root; every distance the tracker takes on the grid of the
\* model is a whole number of pixels (see DistancesExact)
GridSpan == MatchThreshold + MatchThreshold
ISqrt(n) == CHOOSE r \in 0..GridSpan : r * r <= n /\ (r + 1) * (r + 1) > n

\* the samples of get_movement_info's window, newest first: the scan over
\* reversed(history) stops at the first sample older than the window
InWindowMutant(age, window) == age < window

InWindow(age, window) == age <= window

RECURSIVE WindowFrom(_, _, _, _)
WindowFrom(history, i, current_time, window) ==
  IF i < 1 THEN <<>>
  ELSE IF InWindow(current_time - history[i][3], window)
       THEN <<history[i]>> \o WindowFrom(history, i - 1, current_time, window)
       ELSE <<>>

RECURSIVE PathLength(_, _)
PathLength(w, i) ==
  IF i >= Len(w) THEN 0
  ELSE ISqrt(Dist2(w[i], w[i + 1])) + PathLength(w, i + 1)

\* get_movement_info with its window in ticks; speed is the fraction
\* speed_num / speed_den in px/s (speed_den = 0 stands for the literal 0 the
\* code returns)
UnknownMovement == [speed_num |-> 0, speed_den |-> 0, distance |-> 0, stopped |-> TRUE]

get_movement_info(obj_id, window, th) ==
  IF obj_id \notin DOMAIN th THEN UnknownMovement
  ELSE LET history == th[obj_id] IN
    IF Len(history) < 2 THEN UnknownMovement
    ELSE LET w == WindowFrom(history, Len(history), history[Len(history)][3], window) IN
      IF Len(w) < 2 THEN UnknownMovement
      ELSE LET total_distance == PathLength(w, 1)
               time_elapsed == w[1][3] - w[Len(w)][3]
           IN IF time_elapsed > 0
              THEN [speed_num |-> total_distance * TicksPerSec, speed_den |-> time_elapsed,
                    distance |-> total_distance,
                    stopped |-> total_distance * TicksPerSec < StoppedSpeed * time_elapsed]
              ELSE [speed_num |-> 0, speed_den |-> 0, distance |-> total_distance,
                    stopped |-> 0 < StoppedSpeed]

\* the call with the default time_window, as the anomaly detector makes it
MovementInfo(obj_id, th) == get_movement_info(obj_id, time_window * TicksPerSec, th)

(***************************************************************************)
(* TrafficData and TrafficMonitor                                          *)
(***************************************************************************)
NewTrafficData(video_id) ==
  [video_id |-> video_id, total_vehicles |-> 0, car_count |-> 0, motorbike_count |-> 0,
   truck_count |-> 0, bus_count |-> 0, hourly_counts |-> <<>>]

\* TrafficData.add_vehicle, the per-type branch
AddTypeCountMutant(td, vehicle_type) ==
  IF vehicle_type = "car" THEN [td EXCEPT !.car_count = @ + 1]
  ELSE IF vehicle_type = "motorbike" THEN [td EXCEPT !.motorbike_count = @ + 1]
  ELSE IF vehicle_type = "truck" THEN [td EXCEPT !.car_count = @ + 1]
  ELSE IF vehicle_type = "bus" THEN [td EXCEPT !.bus_count = @ + 1]
  ELSE td

AddTypeCount(td, vehicle_type) ==
  IF vehicle_type = "car" THEN [td EXCEPT !.car_count = @ + 1]
  ELSE IF vehicle_type = "motorbike" THEN [td EXCEPT !.motorbike_count = @ + 1]
  ELSE IF vehicle_type = "truck" THEN [td EXCEPT !.truck_count = @ + 1]
  ELSE IF vehicle_type = "bus" THEN [td EXCEPT !.bus_count = @ + 1]
  ELSE td

add_vehicle(td, vehicle_type) ==
  LET td1 == AddTypeCount(td, vehicle_type)
  IN IF vehicle_type \in VehicleClasses
     THEN [td1 EXCEPT !.total_vehicles = @ + 1]
     ELSE td1

ZeroCounts == [car |-> 0, motorbike |-> 0, truck |-> 0, bus |-> 0]

\* detection.class_name in frame_counts
InFrameCountsMutant(class_name) == class_name \in DOMAIN ZeroCounts \cup {"person"}

InFrameCounts(class_name) == class_name \in DOMAIN ZeroCounts

\* the loop of process_frame_detections over detections[i..]; s carries
\* [td, counted, frame_counts, crossed]
RECURSIVE ProcessLoop(_, _, _, _, _)
ProcessLoop(dets, i, th, line, s) ==
  IF i > Len(dets) THEN s
  ELSE LET d == dets[i] IN
    IF InFrameCounts(d.class_name)
    THEN LET fc == [s.frame_counts EXCEPT ![d.class_name] = @ + 1]
             crossed == CheckLineCrossingResult(d.id, line[1], line[2], line[3], th, s.counted)
         IN IF crossed
            THEN ProcessLoop(dets, i + 1, th, line,
                   [s EXCEPT !.frame_counts = fc,
                             !.td = add_vehicle(s.td, d.class_name),
                             !.counted = s.counted \cup {d.id},
                             !.crossed = Append(s.crossed, d.id)])
            ELSE ProcessLoop(dets, i + 1, th, line, [s EXCEPT !.frame_counts = fc])
    ELSE ProcessLoop(dets, i + 1, th, line, s)

MaxMutant(a, b) == b

Max(a, b) == IF a > b THEN a ELSE b

\* the divisor of int(timestamp // 3600), and an hour in ticks
SecondsPerHour == 3600
HourTicks == SecondsPerHour * TicksPerSec
SecondsPerMinute == 60
MinuteTicks == SecondsPerMinute * TicksPerSec
FlushInterval == 30

\* _update_hourly_stats
UpdateHourlyStats(td, timestamp, frame_counts) ==
  LET hour == timestamp \div HourTicks
      hc == td.hourly_counts
      cur == IF hour \in DOMAIN hc THEN hc[hour] ELSE ZeroCounts
      new == [v \in DOMAIN ZeroCounts |-> Max(cur[v], frame_counts[v])]
  IN [td EXCEPT !.hourly_counts = [h \in DOMAIN hc \cup {hour} |-> IF h = hour THEN new ELSE hc[h]]]

ProcessFrameResult(dets, th, counted, line, td, timestamp) ==
  LET s == ProcessLoop(dets, 1, th, line,
             [td |-> td, counted |-> counted, frame_counts |-> ZeroCounts, crossed |-> <<>>])
  IN [td |-> UpdateHourlyStats(s.td, timestamp, s.frame_counts),
      counted |-> s.counted, crossed |-> s.crossed]

(***************************************************************************)
(* AnomalyDetector                                                         *)
(***************************************************************************)
anomaly_classes ==
  [pedestrian |-> {"person"},
   animal |-> {"dog", "cat", "bird", "animal"},
   obstacle |-> {"obstacle", "debris", "rock", "tree", "garbage"},
   stopped_vehicle |-> {"car", "motorbike", "truck", "bus"}]

\* _format_position
FormatPosition(position) ==
  IF position = NoCenter THEN [text |-> "unknown", x |-> 0, y |-> 0]
  ELSE [text |-> "(x, y)", x |-> position[1], y |-> position[2]]

\* int() of a duration given in ticks: whole seconds, truncated towards zero
IntSeconds(d) == IF d >= 0 THEN d \div TicksPerSec ELSE 0 - ((0 - d) \div TicksPerSec)

\* _create_anomaly; additional_info is <<>> or <<stop_duration>>
CreateAnomaly(anomaly_type, message, d, timestamp, severity, additional_info) ==
  [type |-> anomaly_type, message |-> message, timestamp |-> timestamp,
   object_id |-> d.id, object_class |-> d.class_name, position |-> d.center,
   bbox |-> d.bbox, severity |-> severity, additional_info |-> additional_info]

\* the duration test of _check_stopped_vehicle
ExceedsThresholdMutant(stop_duration) == stop_duration >= stop_time_threshold * TicksPerSec

ExceedsThreshold(stop_duration) == stop_duration > stop_time_threshold * TicksPerSec

\* the vehicle is moving: del self.stopped_vehicles[detection.id], if it is there
ResumeMovingMutant(sv, id) == sv

ResumeMoving(sv, id) == [k \in DOMAIN sv \ {id} |-> sv[k]]

\* _check_stopped_vehicle: [sv, out] with out <<>> for None or <<anomaly>>
CheckStoppedVehicle(d, th, sv, timestamp) ==
  IF MovementInfo(d.id, th).stopped
  THEN IF d.id \notin DOMAIN sv
       THEN [sv |-> [k \in DOMAIN sv \cup {d.id} |->
                       IF k = d.id
                       THEN [start_time |-> timestamp, position |-> d.center,
                             vehicle_type |-> d.class_name]
                       ELSE sv[k]],
             out |-> <<>>]
       ELSE LET stop_duration == timestamp - sv[d.id].start_time IN
            IF ExceedsThreshold(stop_duration)
            THEN [sv |-> sv,
                  out |-> <<CreateAnomaly("stopped_vehicle",
                              <<"stopped", d.class_name, IntSeconds(stop_duration), "s">>,
                              d, timestamp, "high", <<stop_duration>>)>>]
            ELSE [sv |-> sv, out |-> <<>>]
  ELSE [sv |-> ResumeMoving(sv, d.id), out |-> <<>>]

\* detection.class_name in self.anomaly_classes[category]
InTableMutant(class_name, category) ==
  category \in {"pedestrian", "stopped_vehicle"} /\ class_name \in anomaly_classes[category]

InTable(class_name, category) == class_name \in anomaly_classes[category]

\* detect_anomalies over detections[i..]; s carries [sv, anomalies]
RECURSIVE DetectLoop(_, _, _, _, _)
DetectLoop(dets, i, th, timestamp, s) ==
  IF i > Len(dets) THEN s
  ELSE LET d == dets[i] IN
    IF InTable(d.class_name, "pedestrian")
    THEN DetectLoop(dets, i + 1, th, timestamp,
           [s EXCEPT !.anomalies = Append(@, CreateAnomaly("pedestrian",
              <<"pedestrian", FormatPosition(d.center)>>, d, timestamp, "medium", <<>>))])
    ELSE IF InTable(d.class_name, "animal")
    THEN DetectLoop(dets, i + 1, th, timestamp,
           [s EXCEPT !.anomalies = Append(@, CreateAnomaly("animal",
              <<"animal", d.class_name>>, d, timestamp, "medium", <<>>))])
    ELSE IF InTable(d.class_name, "obstacle")
    THEN DetectLoop(dets, i + 1, th, timestamp,
           [s EXCEPT !.anomalies = Append(@, CreateAnomaly("obstacle",
              <<"obstacle", d.class_name>>, d, timestamp, "medium", <<>>))])
    ELSE IF InTable(d.class_name, "stopped_vehicle")
    THEN LET r == CheckStoppedVehicle(d, th, s.sv, timestamp)
         IN DetectLoop(dets, i + 1, th, timestamp,
              [sv |-> r.sv,
               anomalies |-> s.anomalies \o r.out,
               checks |-> Append(s.checks,
                  [id |-> d.id, stopped |-> MovementInfo(d.id, th).stopped,
                   had_entry |-> d.id \in DOMAIN s.sv,
                   start_time |-> IF d.id \in DOMAIN s.sv THEN s.sv[d.id].start_time ELSE -1,
                   out |-> r.out])])
    ELSE DetectLoop(dets, i + 1, th, timestamp, s)

DetectAnomaliesResult(dets, th, sv, timestamp) ==
  DetectLoop(dets, 1, th, timestamp, [sv |-> sv, anomalies |-> <<>>, checks |-> <<>>])


(***************************************************************************)
(* The components driven through their public operations                   *)
(***************************************************************************)
\* VehicleTracker.reset, field by field
ResetCountedIdsMutant == counted_ids

ResetCountedIds == {}

ResetNextIdMutant == next_id

ResetNextId == 1

\* TrafficMonitor.reset
ResetTrafficDataMutant == [traffic_data EXCEPT !.video_id = 0, !.hourly_counts = <<>>]

ResetTrafficData == NewTrafficData(0)

\* what a detector can report for one frame
RawDetections(classes, boxes) == {Detection(0, c, b) : c \in classes, b \in boxes}
\* frames of at most one detection anywhere on the grid, and crowded frames of
\* two detections on two neighbouring points
SingleFrames(raw) == {<<>>} \cup {<<d>> : d \in raw}
CrowdedFrames(raw) == {q \in raw \X raw : q[1] # q[2]}
CrowdedBoxes == {BoxAt(<<30, 0>>), BoxAt(<<60, 0>>)}

TrackerFrames ==
  SingleFrames(RawDetections({"car"}, BBoxes \cup {NoBBox}))
    \cup CrowdedFrames(RawDetections({"car"}, CrowdedBoxes))
\* the frames of the videos: a car on the two points of the column, a truck
\* on the two of the row, a pedestrian on one
PipelineRaw ==
  RawDetections({"car"}, {BoxAt(<<30, 0>>), BoxAt(<<30, 40>>)})
    \cup RawDetections({"truck"}, {BoxAt(<<30, 0>>), BoxAt(<<60, 0>>)})
    \cup RawDetections({"person"}, {BoxAt(<<60, 0>>)})
PipelineFrames == SingleFrames(PipelineRaw)

\* the last n elements of a sequence
LastN(q, n) == IF Len(q) <= n THEN q ELSE SubSeq(q, Len(q) - n + 1, Len(q))

\* arrivals after update_tracks
RECURSIVE ArrivalsAll(_, _, _)
ArrivalsAll(f, applied, i) ==
  IF i > Len(applied) THEN f
  ELSE LET id == applied[i][1]
           old == IF id \in DOMAIN f THEN f[id] ELSE 0
       IN ArrivalsAll([k \in DOMAIN f \cup {id} |->
                         IF k = id THEN (IF old > max_history THEN old ELSE old + 1) ELSE f[k]],
                      applied, i + 1)

\* returned_true after update_tracks: the ids that received a sample moved on
MovedOn(f, applied) ==
  [k \in DOMAIN f |-> f[k] \/ \E i \in 1..Len(applied) : applied[i][1] = k]

\* a movement from prev to curr properly crosses the segment a-b: the two
\* centers lie strictly on both sides of the line and the line's ends strictly
\* on both sides of the movement
Cross(o, p, q) == (p[1] - o[1]) * (q[2] - o[2]) - (p[2] - o[2]) * (q[1] - o[1])
Sign(n) == IF n > 0 THEN 1 ELSE IF n < 0 THEN -1 ELSE 0
ProperCrossing(prev, curr, a, b) ==
  /\ Sign(Cross(a, b, prev)) * Sign(Cross(a, b, curr)) < 0
  /\ Sign(Cross(prev, curr, a)) * Sign(Cross(prev, curr, b)) < 0

\* the displacement is strictly positive along the direction (y grows downwards)
PositiveAlong(direction, prev, curr) ==
  \/ direction = "down" /\ curr[2] > prev[2]
  \/ direction = "up" /\ curr[2] < prev[2]
  \/ direction = "right" /\ curr[1] > prev[1]
  \/ direction = "left" /\ curr[1] < prev[1]

\* forward after update_tracks: a sample that makes its id's consecutive
\* centers cross the monitor's line in its direction is recorded with the
\* class of the detection (at most two are remembered per id)
RECURSIVE ForwardAll(_, _, _, _, _, _)
ForwardAll(f, applied, dets, th, line, i) ==
  IF i > Len(applied) THEN f
  ELSE LET a == applied[i]
           id == a[1]
           curr == <<a[2], a[3]>>
           cls == (CHOOSE d \in {dets[k] : k \in 1..Len(dets)} : d.id = id /\ d.center = curr).class_name
           old == IF id \in DOMAIN f THEN f[id] ELSE <<>>
           h == IF id \in DOMAIN th THEN th[id] ELSE <<>>
           crossed == /\ Len(h) > 0
                      /\ ProperCrossing(<<h[Len(h)][1], h[Len(h)][2]>>, curr, line[1], line[2])
                      /\ PositiveAlong(line[3], <<h[Len(h)][1], h[Len(h)][2]>>, curr)
       IN ForwardAll([k \in DOMAIN f \cup {id} |->
                        IF k = id THEN (IF crossed /\ Len(old) < 2 THEN Append(old, cls) ELSE old)
                        ELSE f[k]],
                     applied, dets, UpdateHistory(th, id, curr, a[4]), line, i + 1)

\* credit after process_frame_detections: the class of each detection counted
RECURSIVE CreditAll(_, _, _, _)
CreditAll(c, crossed, dets, i) ==
  IF i > Len(crossed) THEN c
  ELSE LET id == crossed[i]
           cls == (CHOOSE d \in {dets[k] : k \in 1..Len(dets)} : d.id = id).class_name
           old == IF id \in DOMAIN c THEN c[id] ELSE <<>>
       IN CreditAll([k \in DOMAIN c \cup {id} |-> IF k = id THEN Append(old, cls) ELSE c[k]],
                    crossed, dets, i + 1)

\* returned_true after True was returned for ids
Answered(f, ids) == [k \in DOMAIN f \cup ids |-> IF k \in DOMAIN f THEN f[k] ELSE FALSE]

InitComponents ==
  /\ tracking_history = <<>>
  /\ last_positions = <<>>
  /\ next_id = 1
  /\ counted_ids = {}
  /\ traffic_data = NewTrafficData(0)
  /\ current_hour = -1
  /\ stopped_vehicles = <<>>
  /\ clock = 0
  /\ tracked = <<>>
  /\ op = [name |-> "init", dirty |-> FALSE]
  /\ arrivals = <<>>
  /\ returned_true = <<>>
  /\ forward = <<>>
  /\ credit = <<>>
  /\ visible = <<>>
  /\ is_analyzing = FALSE
  /\ is_paused = FALSE
  /\ should_stop = FALSE
  /\ current_video_id = 0
  /\ analysis_thread = 0
  /\ orch_counted_ids = {}
  /\ progress_queue = <<>>
  /\ stats_queue = <<>>
  /\ frame_queue = <<>>
  /\ workers = <<>>
  /\ video_processor = [open |-> FALSE, pos |-> 0]
  /\ videos = <<>>
  /\ detection_events = {}
  /\ anomaly_events = {}
  /\ caller = "idle"
  /\ call = [name |-> "init", ret |-> 0]
  /\ detection_batch = <<>>
  /\ anomaly_batch = <<>>
  /\ minute_aggregations = <<>>
  /\ current_minute = -1
  /\ detection_repo = <<>>
  /\ anomaly_repo = <<>>

\* tracker.update_tracks(detections, timestamp) on the next frame
UpdateTracksOn(frames, dts) ==
  \E frame \in frames, dt \in dts :
    LET t == clock + dt
        r == UpdateTracksResult(frame, t, tracking_history, last_positions, next_id)
    IN /\ t <= MaxTime
       /\ r.nid <= MaxIds + 1
       /\ tracking_history' = r.th
       /\ last_positions' = r.lp
       /\ next_id' = r.nid
       /\ clock' = t
       /\ tracked' = r.dets
       /\ arrivals' = LET f == ArrivalsAll(arrivals, r.applied, 1)
                      IN [k \in DOMAIN f \ r.purged |-> f[k]]
       /\ returned_true' = MovedOn(returned_true, r.applied)
       /\ forward' = ForwardAll(forward, r.applied, r.dets, tracking_history, virtual_line, 1)
       /\ op' = [name |-> "call", dirty |-> FALSE]
       /\ UNCHANGED <<counted_ids, virtual_line, traffic_data, current_hour,
                      stopped_vehicles, credit, visible>>
       /\ UNCHANGED orchVars
       /\ UNCHANGED batchVars

\* tracker.reset()
TrackerReset ==
  /\ stage = "track"
  /\ tracking_history' = <<>>
  /\ last_positions' = <<>>
  /\ counted_ids' = ResetCountedIds
  /\ next_id' = ResetNextId
  /\ arrivals' = <<>>
  /\ returned_true' = <<>>
  /\ forward' = <<>>
  /\ tracked' = <<>>
  /\ op' = [name |-> "tracker_reset",
            dirty |-> tracking_history # <<>> /\ last_positions # <<>>
                      /\ counted_ids # {} /\ next_id > 1]
  /\ clock' = 0
  /\ UNCHANGED <<virtual_line, traffic_data, current_hour, stopped_vehicles, stage, credit, visible>>
  /\ UNCHANGED orchVars
  /\ UNCHANGED batchVars

\* the hour a timestamp falls in, and the detections of a type in a frame
HourOf(timestamp) ==
  CHOOSE h \in 0..timestamp : h * HourTicks <= timestamp /\ timestamp < (h + 1) * HourTicks
VisibleCount(dets, v) == Cardinality({i \in 1..Len(dets) : dets[i].class_name = v})

\* visible after a frame was processed at a timestamp
VisibleAfter(vis, dets, timestamp) ==
  [h \in DOMAIN vis \cup {HourOf(timestamp)} |->
     [v \in VehicleClasses |->
        LET old == IF h \in DOMAIN vis THEN vis[h][v] ELSE 0
            now == IF h = HourOf(timestamp) THEN VisibleCount(dets, v) ELSE 0
        IN IF now > old THEN now ELSE old]]

\* monitor.process_frame_detections(detections, tracker, timestamp) on the
\* detections the tracker returned last
ProcessFrameOn(times) ==
  \E timestamp \in times :
    LET r == ProcessFrameResult(tracked, tracking_history, counted_ids, virtual_line,
                                traffic_data, timestamp)
    IN /\ traffic_data' = r.td
       /\ counted_ids' = r.counted
       /\ returned_true' = Answered(returned_true, {r.crossed[i] : i \in 1..Len(r.crossed)})
       /\ credit' = CreditAll(credit, r.crossed, tracked, 1)
       /\ visible' = VisibleAfter(visible, tracked, timestamp)
       /\ op' = [name |-> "call", dirty |-> FALSE]
       /\ UNCHANGED <<tracking_history, last_positions, next_id, virtual_line, current_hour,
                      stopped_vehicles, clock, tracked, arrivals, forward>>
       /\ UNCHANGED orchVars
       /\ UNCHANGED batchVars

(***************************************************************************)
(* SpecTracker: the VehicleTracker driven through its public operations    *)
(***************************************************************************)
InitTracker ==
  /\ InitComponents
  /\ stage = "track"
  /\ virtual_line = <<<<100, 300>>, <<800, 300>>, "down">>

UpdateTracks ==
  /\ UpdateTracksOn(TrackerFrames, Dts)
  /\ UNCHANGED stage

\* counted_ids after a call of check_line_crossing that answered ret
MarkCountedMutant(ret, obj_id, counted) == counted \cup {obj_id}

MarkCounted(ret, obj_id, counted) == IF ret THEN counted \cup {obj_id} ELSE counted

\* tracker.get_movement_info(obj_id, time_window): reads the history of the id
GetMovementInfo ==
  \E obj_id \in 0..MaxIds, window \in {time_window * TicksPerSec} :
    /\ get_movement_info(obj_id, window, tracking_history).stopped \in BOOLEAN
    /\ op' = [name |-> "call", dirty |-> FALSE]
    /\ UNCHANGED <<trackerVars, virtual_line, traffic_data, current_hour, stopped_vehicles,
                   clock, tracked, stage, arrivals, returned_true, forward, credit, visible>>
    /\ UNCHANGED orchVars
    /\ UNCHANGED batchVars

\* tracker.check_line_crossing(obj_id, line_start, line_end, direction)
CheckLineCrossing ==
  \E obj_id \in 0..MaxIds, l \in Lines, direction \in Directions :
    LET ret == CheckLineCrossingResult(obj_id, l[1], l[2], direction,
                                       tracking_history, counted_ids)
    IN /\ counted_ids' = MarkCounted(ret, obj_id, counted_ids)
       /\ returned_true' = IF ret THEN Answered(returned_true, {obj_id}) ELSE returned_true
       /\ op' = [name |-> "call", dirty |-> FALSE]
       /\ UNCHANGED <<tracking_history, last_positions, next_id, virtual_line, traffic_data,
                      current_hour, stopped_vehicles, clock, tracked, stage, arrivals, forward,
                      credit, visible>>
       /\ UNCHANGED orchVars
       /\ UNCHANGED batchVars

NextTracker ==
  \/ UpdateTracks
  \/ CheckLineCrossing
  \/ GetMovementInfo
  \/ TrackerReset

SpecTracker == InitTracker /\ [][NextTracker]_vars

(***************************************************************************)
(* Spec: the three components driven frame by frame in the order of        *)
(* _process_single_frame: tracking, traffic monitoring, anomaly detection  *)
(***************************************************************************)
Init ==
  /\ InitComponents
  /\ stage = "load"
  /\ virtual_line \in LineConfigs

\* stage 2 of _process_single_frame, on a frame that comes one tick, the
\* length of get_movement_info's window or more than max_age after the last
TrackFrame ==
  /\ stage = "track"
  /\ UpdateTracksOn(PipelineFrames, Dts \cup {time_window * TicksPerSec})
  /\ stage' = "monitor"

\* stage 3: monitor.process_frame_detections(detections, tracker, timestamp)
MonitorFrame ==
  /\ stage = "monitor"
  /\ ProcessFrameOn({clock})
  /\ stage' = "anomaly"

\* stage 4: detector.detect_anomalies(detections, tracker, timestamp)
AnomalyFrame ==
  /\ stage = "anomaly"
  /\ stopped_vehicles' =
       DetectAnomaliesResult(tracked, tracking_history, stopped_vehicles, clock).sv
  /\ stage' = "track"
  /\ op' = [name |-> "call", dirty |-> FALSE]
  /\ UNCHANGED <<tracking_history, last_positions, next_id, counted_ids, virtual_line,
                 traffic_data, current_hour, clock, tracked, arrivals, returned_true, forward,
                 credit, visible>>
  /\ UNCHANGED orchVars
  /\ UNCHANGED batchVars

\* orchestrator.reset(): the three components are reset together
Reset ==
  /\ stage = "track"
  /\ tracking_history' = <<>>
  /\ last_positions' = <<>>
  /\ counted_ids' = ResetCountedIds
  /\ next_id' = ResetNextId
  /\ traffic_data' = ResetTrafficData
  /\ current_hour' = -1
  /\ stopped_vehicles' = <<>>
  /\ arrivals' = <<>>
  /\ returned_true' = <<>>
  /\ forward' = <<>>
  /\ credit' = <<>>
  /\ visible' = <<>>
  /\ tracked' = <<>>
  /\ op' = [name |-> "reset",
            dirty |-> /\ tracking_history # <<>> /\ last_positions # <<>>
                      /\ counted_ids # {} /\ next_id > 1
                      /\ traffic_data.total_vehicles > 0 /\ traffic_data.video_id # 0
                      /\ traffic_data.hourly_counts # <<>>]
  /\ clock' = 0
  /\ stage' = "load"
  /\ UNCHANGED virtual_line
  /\ UNCHANGED orchVars
  /\ UNCHANGED batchVars

\* load_video, after its reset(): the aggregate is bound to the video record
SetVideoId ==
  /\ stage = "load"
  /\ traffic_data' = [traffic_data EXCEPT !.video_id = 1]
  /\ stage' = "track"
  /\ op' = [name |-> "call", dirty |-> FALSE]
  /\ UNCHANGED <<tracking_history, last_positions, next_id, counted_ids, virtual_line,
                 current_hour, stopped_vehicles, clock, tracked, arrivals, returned_true,
                 forward, credit, visible>>
  /\ UNCHANGED orchVars
  /\ UNCHANGED batchVars

Next ==
  \/ TrackFrame
  \/ MonitorFrame
  \/ AnomalyFrame
  \/ Reset
  \/ SetVideoId

Spec == Init /\ [][Next]_vars

(***************************************************************************)
(* SpecDetector: detect_anomalies on the frames of a road with hazards      *)
(***************************************************************************)
\* a pedestrian, a dog and a rock, each at its place, and a car next to the dog
HazardRaw ==
  RawDetections({"person"}, {BoxAt(<<30, 0>>)})
    \cup RawDetections({"dog", "car"}, {BoxAt(<<60, 0>>)})
    \cup RawDetections({"rock"}, {BoxAt(<<30, 40>>)})
\* a pedestrian reported without a bbox, alone and in front of the dog
MalformedFrames ==
  {<<Detection(0, "person", NoBBox)>>,
   <<Detection(0, "person", NoBBox), Detection(0, "dog", BoxAt(<<60, 0>>))>>}
HazardFrames == SingleFrames(HazardRaw) \cup CrowdedFrames(HazardRaw) \cup MalformedFrames

\* the number of frames of the road that are looked at
MaxFrames == 3

InitDetector ==
  /\ InitComponents
  /\ stage = "track"
  /\ virtual_line = <<<<100, 300>>, <<800, 300>>, "down">>

\* tracker.update_tracks on the next frame, one tick after the last
HazardTrack ==
  /\ stage = "track"
  /\ clock < MaxFrames
  /\ UpdateTracksOn(HazardFrames, {1})
  /\ stage' = "anomaly"

NextDetector ==
  \/ HazardTrack
  \/ AnomalyFrame

SpecDetector == InitDetector /\ [][NextDetector]_vars

(***************************************************************************)
(* SpecMonitor: process_frame_detections on tracked frames, at timestamps   *)
(* around the turn of the hour                                             *)
(***************************************************************************)
\* cars and pedestrians on the two sides of the line
MonitorRaw == RawDetections({"car", "person"}, {BoxAt(<<30, 0>>), BoxAt(<<60, 0>>)})
MonitorFrames ==
  SingleFrames(MonitorRaw)
    \cup {<<Detection(0, "car", BoxAt(<<30, 0>>)), Detection(0, "car", BoxAt(<<60, 0>>))>>,
          <<Detection(0, "person", BoxAt(<<30, 0>>)), Detection(0, "car", BoxAt(<<60, 0>>))>>}

\* the timestamps of the calls: the start, the last tick of the first hour
\* and the first tick of the second
MonitorTimes == {0, HourTicks - 1, HourTicks}

InitMonitor ==
  /\ InitComponents
  /\ stage = "track"
  /\ virtual_line = <<<<45, -10>>, <<45, 50>>, "right">>

\* tracker.update_tracks on the next frame, one tick after the last
MonitorTrack ==
  /\ stage = "track"
  /\ clock < MaxFrames
  /\ UpdateTracksOn(MonitorFrames, {1})
  /\ stage' = "monitor"

\* monitor.process_frame_detections on the tracked frame
ProcessFrameDetections ==
  /\ stage = "monitor"
  /\ ProcessFrameOn(MonitorTimes)
  /\ stage' = "track"

NextMonitor ==
  \/ MonitorTrack
  \/ ProcessFrameDetections

SpecMonitor == InitMonitor /\ [][NextMonitor]_vars

(***************************************************************************)
(* SpecDensity: get_density_level between the calls that change the monitor *)
(***************************************************************************)
\* the largest vehicle count asked about
MaxCount == 100

\* get_density_level
DensityLevelMutant(current_vehicle_count) ==
  IF current_vehicle_count < 5 THEN "low"
  ELSE IF current_vehicle_count <= 15 THEN "medium"
  ELSE IF current_vehicle_count < 25 THEN "high"
  ELSE "very_high"

DensityLevel(current_vehicle_count) ==
  IF current_vehicle_count < 5 THEN "low"
  ELSE IF current_vehicle_count < 15 THEN "medium"
  ELSE IF current_vehicle_count < 25 THEN "high"
  ELSE "very_high"

InitDensity ==
  /\ InitComponents
  /\ stage = "monitor"
  /\ virtual_line = <<<<45, -10>>, <<45, 50>>, "right">>

\* monitor.get_density_level(current_vehicle_count)
GetDensityLevel ==
  \E current_vehicle_count \in 0..MaxCount :
    /\ call' = [name |-> "get_density_level", arg |-> current_vehicle_count,
                ret |-> DensityLevel(current_vehicle_count)]
    /\ UNCHANGED <<is_analyzing, is_paused, should_stop, current_video_id, analysis_thread,
                   orch_counted_ids, progress_queue, stats_queue, frame_queue, workers,
                   video_processor, videos, detection_events, anomaly_events, caller>>
    /\ UNCHANGED componentVars
    /\ UNCHANGED traceVars
    /\ UNCHANGED batchVars

\* monitor.process_frame_detections on a frame without detections
ProcessEmptyFrame ==
  /\ ProcessFrameOn(MonitorTimes)
  /\ UNCHANGED stage

NextDensity ==
  \/ GetDensityLevel
  \/ ProcessEmptyFrame

SpecDensity == InitDensity /\ [][NextDensity]_vars

(***************************************************************************)
(* SpecOrch: VideoAnalysisOrchestrator, its caller and its worker threads  *)
(***************************************************************************)
\* the video every session analyses, one frame per tick: a car moves to the
\* right over the line and a pedestrian appears
OrchVideo ==
  << <<Detection(0, "car", BoxAt(<<30, 0>>))>>,
     <<Detection(0, "car", BoxAt(<<60, 0>>))>>,
     <<Detection(0, "person", BoxAt(<<30, 40>>))>> >>

\* a video long enough to offer one frame more than the frame queue holds: a
\* car drives over the line and stays, a pedestrian shows in every frame offered
DisplayVideo ==
  [i \in 1..(FrameStride * (FrameQueueSize + 1)) |->
     IF i = 1 THEN <<Detection(0, "car", BoxAt(<<30, 0>>))>>
     ELSE IF i % FrameStride = 0
          THEN <<Detection(0, "car", BoxAt(<<60, 0>>)), Detection(0, "person", BoxAt(<<30, 40>>))>>
          ELSE <<Detection(0, "car", BoxAt(<<60, 0>>))>>]

\* the frames video_processor reads
CurrentVideo == IF stage = "display" THEN DisplayVideo ELSE OrchVideo

\* the ids video_repo.create gives to the records of the sessions
VideoIds == {1, 2}

NoWork == [frame_count |-> 0, timestamp |-> 0, dets |-> <<>>]

\* a thread at its start; woken and abandoned are the record of what
\* stop_analysis did to it: it set should_stop while the thread slept in the
\* inner loop (kept for the pass through the loop that follows), its
\* join(timeout=5) returned while the thread was running
NewWorker == [pc |-> "open", work |-> NoWork, woken |-> FALSE, abandoned |-> FALSE]

\* the guard of start_full_video_analysis
BusyMutant == FALSE

Busy == is_analyzing

\* the reset() calls of the three components
ResetTracker ==
  /\ tracking_history' = <<>>
  /\ last_positions' = <<>>
  /\ counted_ids' = ResetCountedIds
  /\ next_id' = ResetNextId

ResetMonitor ==
  /\ traffic_data' = ResetTrafficData
  /\ current_hour' = -1

ResetDetector == stopped_vehicles' = <<>>

\* start_full_video_analysis while is_analyzing: nothing but the return of -1
StartRejected ==
  /\ caller = "idle"
  /\ Busy
  /\ call' = [name |-> "start", ret |-> -1]
  /\ UNCHANGED <<tracking_history, last_positions, next_id, counted_ids, virtual_line,
                 traffic_data, current_hour, stopped_vehicles, is_analyzing, is_paused,
                 should_stop, current_video_id, analysis_thread, orch_counted_ids,
                 progress_queue, stats_queue, frame_queue, workers, video_processor, videos,
                 detection_events, anomaly_events, caller>>
  /\ UNCHANGED traceVars
  /\ UNCHANGED batchVars

\* start_full_video_analysis on a file that cannot be opened: reset(), then -1
StartFailed ==
  /\ caller = "idle"
  /\ ~Busy
  /\ ResetTracker /\ ResetMonitor /\ ResetDetector
  /\ current_video_id' = 0
  /\ is_analyzing' = FALSE
  /\ is_paused' = FALSE
  /\ should_stop' = FALSE
  /\ orch_counted_ids' = {}
  /\ progress_queue' = <<>>
  /\ stats_queue' = <<>>
  /\ frame_queue' = <<>>
  /\ call' = [name |-> "start", ret |-> -1]
  /\ UNCHANGED <<virtual_line, analysis_thread, workers, video_processor, videos,
                 detection_events, anomaly_events, caller>>
  /\ UNCHANGED traceVars
  /\ UNCHANGED batchVars

\* start_full_video_analysis on a good file: reset(), the video record, the
\* flags, the queues and the new worker thread
StartAnalysis ==
  /\ caller = "idle"
  /\ ~Busy
  /\ Len(videos) + 1 \in VideoIds
  /\ ResetTracker /\ ResetMonitor /\ ResetDetector
  /\ orch_counted_ids' = {}
  /\ videos' = Append(videos, "processing")
  /\ current_video_id' = Len(videos) + 1
  /\ is_analyzing' = TRUE
  /\ is_paused' = FALSE
  /\ should_stop' = FALSE
  /\ progress_queue' = <<>>
  /\ stats_queue' = <<>>
  /\ frame_queue' = <<>>
  /\ analysis_thread' = Len(videos) + 1
  /\ workers' = [t \in DOMAIN workers \cup {Len(videos) + 1} |->
                   IF t \in DOMAIN workers THEN workers[t]
                   ELSE NewWorker]
  /\ call' = [name |-> "start", ret |-> Len(videos) + 1]
  /\ UNCHANGED <<virtual_line, video_processor, detection_events, anomaly_events, caller>>
  /\ UNCHANGED traceVars
  /\ UNCHANGED batchVars

\* pause_analysis
PauseAnalysis ==
  /\ caller = "idle"
  /\ is_paused' = IF is_analyzing /\ ~is_paused THEN TRUE ELSE is_paused
  /\ UNCHANGED <<is_analyzing, should_stop, current_video_id, analysis_thread,
                 orch_counted_ids, progress_queue, stats_queue, frame_queue, workers,
                 video_processor, videos, detection_events, anomaly_events, caller, call>>
  /\ UNCHANGED componentVars
  /\ UNCHANGED traceVars
  /\ UNCHANGED batchVars

\* resume_analysis
ResumeAnalysis ==
  /\ caller = "idle"
  /\ is_paused' = IF is_analyzing /\ is_paused THEN FALSE ELSE is_paused
  /\ UNCHANGED <<is_analyzing, should_stop, current_video_id, analysis_thread,
                 orch_counted_ids, progress_queue, stats_queue, frame_queue, workers,
                 video_processor, videos, detection_events, anomaly_events, caller, call>>
  /\ UNCHANGED componentVars
  /\ UNCHANGED traceVars
  /\ UNCHANGED batchVars

\* stop_analysis up to its join: the flags are set and the caller waits
StopAnalysis ==
  /\ caller = "idle"
  /\ is_analyzing
  /\ should_stop' = TRUE
  /\ is_paused' = FALSE
  /\ caller' = IF analysis_thread # 0 THEN "joining" ELSE "idle"
  /\ is_analyzing' = IF analysis_thread # 0 THEN is_analyzing ELSE FALSE
  /\ workers' = [t \in DOMAIN workers |->
                   IF workers[t].pc = "read" /\ is_paused /\ ~should_stop
                   THEN [workers[t] EXCEPT !.woken = TRUE]
                   ELSE workers[t]]
  /\ UNCHANGED <<current_video_id, analysis_thread, orch_counted_ids, progress_queue,
                 stats_queue, frame_queue, video_processor, videos,
                 detection_events, anomaly_events, call>>
  /\ UNCHANGED componentVars
  /\ UNCHANGED traceVars
  /\ UNCHANGED batchVars

\* stop_analysis after its join: join(timeout=5) returns when the thread has
\* ended
StopJoined ==
  /\ caller = "joining"
  /\ workers[analysis_thread].pc = "done"
  /\ is_analyzing' = FALSE
  /\ caller' = "idle"
  /\ UNCHANGED <<is_paused, should_stop, current_video_id, analysis_thread,
                 orch_counted_ids, progress_queue, stats_queue, frame_queue, workers,
                 video_processor, videos, detection_events, anomaly_events, call>>
  /\ UNCHANGED componentVars
  /\ UNCHANGED traceVars
  /\ UNCHANGED batchVars

\* ... or when the five seconds are over and the thread is still running
StopTimedOut ==
  /\ caller = "joining"
  /\ workers[analysis_thread].pc # "done"
  /\ is_analyzing' = FALSE
  /\ caller' = "idle"
  /\ workers' = [workers EXCEPT ![analysis_thread].abandoned = TRUE]
  /\ UNCHANGED <<is_paused, should_stop, current_video_id, analysis_thread,
                 orch_counted_ids, progress_queue, stats_queue, frame_queue,
                 video_processor, videos, detection_events, anomaly_events, call>>
  /\ UNCHANGED componentVars
  /\ UNCHANGED traceVars
  /\ UNCHANGED batchVars

\* a step of a worker that changes nothing but the worker and, possibly, the
\* video processor
WorkerMoves(t, pc, work) == workers' = [workers EXCEPT ![t].pc = pc, ![t].work = work]

WorkerOnly ==
  /\ UNCHANGED <<is_analyzing, is_paused, should_stop, current_video_id, analysis_thread,
                 orch_counted_ids, progress_queue, stats_queue, frame_queue, videos,
                 detection_events, anomaly_events, caller, call>>
  /\ UNCHANGED componentVars
  /\ UNCHANGED traceVars
  /\ UNCHANGED batchVars

\* _analyze_video_worker: video_processor.open_video
WorkerOpen(t) ==
  /\ workers[t].pc = "open"
  /\ video_processor' = [open |-> TRUE, pos |-> 0]
  /\ WorkerMoves(t, "loop", NoWork)
  /\ WorkerOnly

\* the test of the outer loop: while not self.should_stop
WorkerLoop(t) ==
  /\ workers[t].pc = "loop"
  /\ workers' = [workers EXCEPT ![t].pc = IF should_stop THEN "finalize" ELSE "read",
                                 ![t].woken = FALSE]
  /\ UNCHANGED video_processor
  /\ WorkerOnly

\* the test of the inner loop: while self.is_paused and not self.should_stop
SleepsMutant == FALSE

Sleeps == is_paused /\ ~should_stop

\* the inner loop, in which the worker sleeps, and video_processor.read_frame
\* after it: None when the video is closed or at its end
WorkerRead(t) ==
  /\ workers[t].pc = "read"
  /\ ~Sleeps
  /\ IF ~video_processor.open \/ video_processor.pos >= Len(CurrentVideo)
     THEN /\ workers' = [workers EXCEPT ![t].pc = "finalize", ![t].woken = FALSE]
          /\ UNCHANGED video_processor
     ELSE /\ workers' = [workers EXCEPT
                 ![t].pc = "frame",
                 ![t].work = [NoWork EXCEPT !.frame_count = video_processor.pos + 1,
                                            !.timestamp = video_processor.pos,
                                            !.dets = CurrentVideo[video_processor.pos + 1]]]
          /\ video_processor' = [video_processor EXCEPT !.pos = @ + 1]
  /\ WorkerOnly

\* the crossing loop of the worker over tracked_objects[i..]; s carries
\* [counted, mine, events] for tracker.counted_ids, _counted_ids and
\* crossing_events
RECURSIVE CrossingLoop(_, _, _, _, _)
CrossingLoop(dets, i, th, line, s) ==
  IF i > Len(dets) THEN s
  ELSE LET d == dets[i] IN
    IF d.id # 0 /\ d.id \notin s.mine
       /\ CheckLineCrossingResult(d.id, line[1], line[2], line[3], th, s.counted)
    THEN CrossingLoop(dets, i + 1, th, line,
           [counted |-> s.counted \cup {d.id}, mine |-> s.mine \cup {d.id},
            events |-> Append(s.events, <<d.id, d.class_name>>)])
    ELSE CrossingLoop(dets, i + 1, th, line, s)

\* what a pass through the loop body can meet: no exception ("ok"), an exception
\* of object_detector.detect or of _overlay_results, of
\* detection_event_repo.create or of anomaly_event_repo.create
StageFailures == {"detect", "overlay"}
SinkFailures == {"detection_sink", "anomaly_sink"}

\* the exceptions that leave the loop for the except clause of the worker; the
\* one raised by anomaly_event_repo.create is caught and logged inside the loop
PropagatesMutant(outcome) == outcome = "detection_sink"

Propagates(outcome) == outcome \in StageFailures \cup {"detection_sink"}

\* frame_queue.put_nowait stores the frame unless the queue is full
HasRoomMutant(q) == TRUE

HasRoom(q) == Len(q) < FrameQueueSize

\* percent_complete of a progress snapshot
Percent(frame_count, total_frames) ==
  IF total_frames > 0 THEN (frame_count * 100) \div total_frames ELSE 0

\* the loop body on the frame read: detection, tracking, the crossing events
\* and their records, the anomalies and their records, the overlay, the
\* statistics and the three queues; an exception ends it where it is raised
WorkerFrameOn(t, outcome) ==
  /\ workers[t].pc = "frame"
  /\ LET w == workers[t].work
         r == UpdateTracksResult(w.dets, w.timestamp, tracking_history, last_positions, next_id)
         c == CrossingLoop(r.dets, 1, r.th, virtual_line,
                [counted |-> counted_ids, mine |-> orch_counted_ids, events |-> <<>>])
         a == DetectAnomaliesResult(r.dets, r.th, stopped_vehicles, w.timestamp)
         tracked_done == outcome # "detect"
         events_done == outcome \notin {"detect", "detection_sink"}
         published == ~Propagates(outcome)
     IN /\ outcome = "detection_sink" => c.events # <<>>
        /\ outcome = "anomaly_sink" => a.anomalies # <<>> /\ current_video_id # 0
        /\ tracking_history' = IF tracked_done THEN r.th ELSE tracking_history
        /\ last_positions' = IF tracked_done THEN r.lp ELSE last_positions
        /\ next_id' = IF tracked_done THEN r.nid ELSE next_id
        /\ counted_ids' = IF tracked_done THEN c.counted ELSE counted_ids
        /\ orch_counted_ids' = IF tracked_done THEN c.mine ELSE orch_counted_ids
        /\ detection_events' =
             IF events_done
             THEN detection_events \cup
                    {<<current_video_id, c.events[i][1], c.events[i][2]>> :
                       i \in 1..Len(c.events)}
             ELSE detection_events
        /\ stopped_vehicles' = IF events_done THEN a.sv ELSE stopped_vehicles
        /\ anomaly_events' =
             IF ~events_done \/ outcome = "anomaly_sink" \/ current_video_id = 0
             THEN anomaly_events
             ELSE anomaly_events \cup
                    {<<current_video_id, a.anomalies[i].type, a.anomalies[i].object_id,
                       a.anomalies[i].timestamp>> : i \in 1..Len(a.anomalies)}
        /\ progress_queue' =
             IF published
             THEN Append(progress_queue,
                    [current_frame |-> w.frame_count, total_frames |-> Len(CurrentVideo),
                     percent_complete |-> Percent(w.frame_count, Len(CurrentVideo)),
                     status |-> "analyzing"])
             ELSE progress_queue
        /\ stats_queue' =
             IF published
             THEN Append(stats_queue,
                    [total_vehicles |-> traffic_data.total_vehicles,
                     current_minute_count |-> Len(c.events),
                     anomalies_detected |-> Len(a.anomalies)])
             ELSE stats_queue
        /\ frame_queue' =
             IF published /\ w.frame_count % FrameStride = 0 /\ HasRoom(frame_queue)
             THEN Append(frame_queue, w.frame_count)
             ELSE frame_queue
  /\ WorkerMoves(t, IF Propagates(outcome) THEN "error" ELSE "loop", NoWork)
  /\ UNCHANGED <<virtual_line, traffic_data, current_hour>>
  /\ UNCHANGED <<is_analyzing, is_paused, should_stop, current_video_id, analysis_thread,
                 video_processor, videos, caller, call>>
  /\ UNCHANGED traceVars
  /\ UNCHANGED batchVars

WorkerFrame(t) == WorkerFrameOn(t, "ok")

\* a stage of the loop body raises
WorkerStageRaises(t) == \E outcome \in StageFailures : WorkerFrameOn(t, outcome)

\* the persistence sink raises while a record is written
WorkerSinkFails(t) == \E outcome \in SinkFailures : WorkerFrameOn(t, outcome)

\* _handle_analysis_error, reached from the except clause of the worker: the
\* record of the current video is marked error
WorkerHandleError(t) ==
  /\ workers[t].pc = "error"
  /\ videos' = IF current_video_id # 0
               THEN [videos EXCEPT ![current_video_id] = "error"]
               ELSE videos
  /\ WorkerMoves(t, "finally", NoWork)
  /\ UNCHANGED <<is_analyzing, is_paused, should_stop, current_video_id, analysis_thread,
                 orch_counted_ids, progress_queue, stats_queue, frame_queue,
                 video_processor, detection_events, anomaly_events, caller, call>>
  /\ UNCHANGED componentVars
  /\ UNCHANGED traceVars
  /\ UNCHANGED batchVars

\* _finalize_analysis: the record of the current video is marked completed
WorkerFinalize(t) ==
  /\ workers[t].pc = "finalize"
  /\ videos' = IF current_video_id # 0
               THEN [videos EXCEPT ![current_video_id] = "completed"]
               ELSE videos
  /\ WorkerMoves(t, "finally", NoWork)
  /\ UNCHANGED <<is_analyzing, is_paused, should_stop, current_video_id, analysis_thread,
                 orch_counted_ids, progress_queue, stats_queue, frame_queue,
                 video_processor, detection_events, anomaly_events, caller, call>>
  /\ UNCHANGED componentVars
  /\ UNCHANGED traceVars
  /\ UNCHANGED batchVars

\* the finally clause of the worker
WorkerFinally(t) ==
  /\ workers[t].pc = "finally"
  /\ is_analyzing' = FALSE
  /\ video_processor' = [open |-> FALSE, pos |-> 0]
  /\ WorkerMoves(t, "done", NoWork)
  /\ UNCHANGED <<is_paused, should_stop, current_video_id, analysis_thread,
                 orch_counted_ids, progress_queue, stats_queue, frame_queue, videos,
                 detection_events, anomaly_events, caller, call>>
  /\ UNCHANGED componentVars
  /\ UNCHANGED traceVars
  /\ UNCHANGED batchVars

InitOrch ==
  /\ InitComponents
  /\ stage = "orchestrator"
  /\ virtual_line = <<<<45, -10>>, <<45, 50>>, "right">>

NextOrch ==
  \/ StartRejected
  \/ StartFailed
  \/ StartAnalysis
  \/ PauseAnalysis
  \/ ResumeAnalysis
  \/ StopAnalysis
  \/ StopJoined
  \/ StopTimedOut
  \/ \E t \in DOMAIN workers : WorkerOpen(t)
  \/ \E t \in DOMAIN workers : WorkerLoop(t)
  \/ \E t \in DOMAIN workers : WorkerRead(t)
  \/ \E t \in DOMAIN workers : WorkerFrame(t)
  \/ \E t \in DOMAIN workers : WorkerStageRaises(t)
  \/ \E t \in DOMAIN workers : WorkerSinkFails(t)
  \/ \E t \in DOMAIN workers : WorkerHandleError(t)
  \/ \E t \in DOMAIN workers : WorkerFinalize(t)
  \/ \E t \in DOMAIN workers : WorkerFinally(t)

SpecOrch == InitOrch /\ [][NextOrch]_vars

(***************************************************************************)
(* SpecChannels: one worker at a time on the long video, and the           *)
(* controller's timer that polls the three queues                          *)
(***************************************************************************)
\* None as a snapshot; None as a frame is the frame number 0
NoItem == [none |-> TRUE]

\* queue.get_nowait(): the oldest entry, or none on queue.Empty
QueueGetMutant(q, none) ==
  IF q = <<>> THEN [item |-> none, rest |-> q]
  ELSE [item |-> q[Len(q)], rest |-> SubSeq(q, 1, Len(q) - 1)]

QueueGet(q, none) ==
  IF q = <<>> THEN [item |-> none, rest |-> q]
  ELSE [item |-> Head(q), rest |-> Tail(q)]

\* AnalysisController._poll_updates: get_current_progress, get_current_stats
\* and get_current_frame, one after the other; seen and total remember the
\* newest progress and stats snapshot the controller was handed since start
PollUpdates ==
  LET p == QueueGet(progress_queue, NoItem)
      st == QueueGet(stats_queue, NoItem)
      f == QueueGet(frame_queue, 0)
      old == IF call.name = "poll" THEN call ELSE [seen |-> 0, total |-> 0]
  IN /\ caller = "idle"
     /\ progress_queue' = p.rest
     /\ stats_queue' = st.rest
     /\ frame_queue' = f.rest
     /\ call' = [name |-> "poll", progress |-> p.item, stats |-> st.item, frame |-> f.item,
                 seen |-> IF p.item = NoItem THEN old.seen ELSE p.item.current_frame,
                 total |-> IF st.item = NoItem THEN old.total ELSE st.item.total_vehicles]
     /\ UNCHANGED <<is_analyzing, is_paused, should_stop, current_video_id, analysis_thread,
                    orch_counted_ids, workers, video_processor, videos, detection_events,
                    anomaly_events, caller>>
     /\ UNCHANGED componentVars
     /\ UNCHANGED traceVars
     /\ UNCHANGED batchVars

InitChannels ==
  /\ InitComponents
  /\ stage = "display"
  /\ virtual_line = <<<<45, -10>>, <<45, 50>>, "right">>

NextChannels ==
  \/ StartAnalysis
  \/ PollUpdates
  \/ \E t \in DOMAIN workers : WorkerOpen(t)
  \/ \E t \in DOMAIN workers : WorkerLoop(t)
  \/ \E t \in DOMAIN workers : WorkerRead(t)
  \/ \E t \in DOMAIN workers : WorkerFrame(t)
  \/ \E t \in DOMAIN workers : WorkerFinalize(t)
  \/ \E t \in DOMAIN workers : WorkerFinally(t)

SpecChannels == InitChannels /\ [][NextChannels]_vars

(***************************************************************************)
(* SpecBatch: the orchestrator of updated_video_orchestrator.py, which runs *)
(* the pipeline inside process_video and writes its records in batches     *)
(***************************************************************************)
\* the seconds between two frames of a video, in ticks: frame_id / fps
FrameSteps == {1, MinuteTicks}

\* the frames a video can show: nothing, a truck on either side of the line,
\* a pedestrian
BatchFrames ==
  SingleFrames(RawDetections({"truck"}, {BoxAt(<<30, 0>>), BoxAt(<<60, 0>>)})
                 \cup RawDetections({"person"}, {BoxAt(<<60, 0>>)}))

MinuteOf(timestamp) == timestamp \div MinuteTicks

\* _add_to_batch, the loop over result.detections[i..]; s carries [counted, batch]
RECURSIVE AddDetectionsLoop(_, _, _, _, _, _, _)
AddDetectionsLoop(dets, i, th, line, video_id, timestamp, s) ==
  IF i > Len(dets) THEN s
  ELSE LET d == dets[i] IN
    IF d.class_name \in VehicleClasses
    THEN LET crossed == CheckLineCrossingResult(d.id, line[1], line[2], line[3], th, s.counted)
         IN AddDetectionsLoop(dets, i + 1, th, line, video_id, timestamp,
              [counted |-> MarkCounted(crossed, d.id, s.counted),
               batch |-> IF crossed
                         THEN Append(s.batch, [video_id |-> video_id, event_id |-> d.id,
                                               timestamp_in_video |-> timestamp,
                                               object_type |-> d.class_name])
                         ELSE s.batch])
    ELSE AddDetectionsLoop(dets, i + 1, th, line, video_id, timestamp, s)

\* _add_to_batch, the loop over result.alerts
AddAlerts(batch, anomalies, video_id, timestamp) ==
  batch \o [i \in 1..Len(anomalies) |->
              [video_id |-> video_id, anomaly_type |-> anomalies[i].type,
               timestamp_in_video |-> timestamp, object_id |-> anomalies[i].object_id,
               severity_level |-> "medium"]]

\* the test that lets a detection add to its minute
NewlyCountedMutant(id, counted, minute, current) == id \in counted

NewlyCounted(id, counted, minute, current) == id \in counted /\ minute # current

\* _update_minute_aggregations: [ma, cm] for minute_aggregations and current_minute
UpdateMinuteAggregations(ma, cm, dets, counted, timestamp) ==
  LET minute == MinuteOf(timestamp)
      old == IF minute \in DOMAIN ma THEN ma[minute] ELSE [v \in VehicleClasses |-> 0]
      add(v) == Cardinality({i \in 1..Len(dets) :
                               /\ dets[i].class_name = v
                               /\ NewlyCounted(dets[i].id, counted, minute, cm)})
  IN [ma |-> [m \in DOMAIN ma \cup {minute} |->
                IF m = minute THEN [v \in VehicleClasses |-> old[v] + add(v)] ELSE ma[m]],
      cm |-> minute]

\* _flush_batches for one batch: the records are handed to the bulk insert
FlushMutant(repo, batch) == IF batch = <<>> THEN repo ELSE repo \o Tail(batch)

Flush(repo, batch) == IF batch = <<>> THEN repo ELSE repo \o batch

\* the periodic flush of process_video
Flushes(frame_count) == frame_count % FlushInterval = 0

\* load_video: reset(), the video opened and its record created
LoadVideo ==
  \E step \in FrameSteps :
    /\ Len(videos) + 1 \in VideoIds
    /\ ResetTracker /\ ResetDetector
    /\ current_hour' = -1
    /\ traffic_data' = [ResetTrafficData EXCEPT !.video_id = Len(videos) + 1]
    /\ should_stop' = FALSE
    /\ detection_batch' = <<>>
    /\ anomaly_batch' = <<>>
    /\ minute_aggregations' = <<>>
    /\ current_minute' = -1
    /\ video_processor' = [open |-> TRUE, pos |-> 0, step |-> step]
    /\ videos' = Append(videos, "loaded")
    /\ current_video_id' = Len(videos) + 1
    /\ clock' = 0
    /\ tracked' = <<>>
    /\ call' = [name |-> "load_video", outcome |-> "ok", alerts |-> <<>>]
    /\ UNCHANGED <<virtual_line, detection_repo, anomaly_repo>>
    /\ UNCHANGED <<is_analyzing, is_paused, analysis_thread, orch_counted_ids, progress_queue,
                   stats_queue, frame_queue, workers, detection_events, anomaly_events, caller>>
    /\ UNCHANGED <<stage, op, arrivals, returned_true, forward, credit, visible>>

\* what a call of process_video can meet: nothing ("ok"), stop() from another
\* thread before the loop tests should_stop, an exception of _draw_results
ProcessOutcomes == {"ok", "stop", "draw"}

\* process_video(save_to_db=True): read_frames() hands out one frame, which goes
\* through the pipeline, the batches and the minute aggregation; then the
\* flushes, the final results and the status of the video record
ProcessVideo ==
  \E outcome \in ProcessOutcomes, frame \in BatchFrames :
    LET vid == current_video_id
        has_frame == video_processor.open /\ video_processor.pos < MaxFrames
        runs == has_frame /\ outcome # "stop"
        frame_count == 0
        t == video_processor.pos * video_processor.step
        r == UpdateTracksResult(frame, t, tracking_history, last_positions, next_id)
        m == ProcessFrameResult(r.dets, r.th, counted_ids, virtual_line, traffic_data, t)
        a == DetectAnomaliesResult(r.dets, r.th, stopped_vehicles, t)
        b == AddDetectionsLoop(r.dets, 1, r.th, virtual_line, vid, t,
                               [counted |-> m.counted, batch |-> detection_batch])
        ab == AddAlerts(anomaly_batch, a.anomalies, vid, t)
        ma == UpdateMinuteAggregations(minute_aggregations, current_minute, r.dets,
                                       b.counted, t)
        raised == runs /\ outcome = "draw"
        done == runs
        flushed == done /\ ~raised /\ Flushes(frame_count)
        db == IF done THEN b.batch ELSE detection_batch
        abb == IF done THEN ab ELSE anomaly_batch
        mid_dr == IF flushed THEN Flush(detection_repo, db) ELSE detection_repo
        mid_db == IF flushed THEN <<>> ELSE db
        mid_ar == IF flushed THEN Flush(anomaly_repo, abb) ELSE anomaly_repo
        mid_ab == IF flushed THEN <<>> ELSE abb
    IN /\ vid # 0
       /\ ~has_frame => frame = <<>> /\ outcome \in {"ok", "stop"}
       /\ runs => r.nid <= MaxIds + 1
       /\ video_processor' = IF has_frame THEN [video_processor EXCEPT !.pos = @ + 1]
                             ELSE video_processor
       /\ should_stop' = (outcome = "stop")
       /\ tracking_history' = IF done THEN r.th ELSE tracking_history
       /\ last_positions' = IF done THEN r.lp ELSE last_positions
       /\ next_id' = IF done THEN r.nid ELSE next_id
       /\ counted_ids' = IF done THEN b.counted ELSE counted_ids
       /\ traffic_data' = IF done THEN m.td ELSE traffic_data
       /\ stopped_vehicles' = IF done THEN a.sv ELSE stopped_vehicles
       /\ minute_aggregations' = IF done THEN ma.ma ELSE minute_aggregations
       /\ current_minute' = IF done THEN ma.cm ELSE current_minute
       /\ detection_repo' = IF raised THEN detection_repo ELSE Flush(mid_dr, mid_db)
       /\ anomaly_repo' = IF raised THEN anomaly_repo ELSE Flush(mid_ar, mid_ab)
       /\ detection_batch' = IF raised THEN db ELSE <<>>
       /\ anomaly_batch' = IF raised THEN abb ELSE <<>>
       /\ videos' = [videos EXCEPT ![vid] = IF raised THEN "failed" ELSE "completed"]
       /\ clock' = IF done THEN t ELSE clock
       /\ tracked' = IF done THEN r.dets ELSE tracked
       /\ call' = [name |-> "process_video", outcome |-> outcome,
                   alerts |-> IF done THEN a.anomalies ELSE <<>>]
       /\ UNCHANGED <<virtual_line, current_hour, current_video_id>>
       /\ UNCHANGED <<is_analyzing, is_paused, analysis_thread, orch_counted_ids,
                      progress_queue, stats_queue, frame_queue, workers, detection_events,
                      anomaly_events, caller>>
       /\ UNCHANGED <<stage, op, arrivals, returned_true, forward, credit, visible>>

InitBatch ==
  /\ InitComponents
  /\ stage = "batch"
  /\ virtual_line = <<<<45, -10>>, <<45, 50>>, "right">>

NextBatch ==
  \/ LoadVideo
  \/ ProcessVideo

SpecBatch == InitBatch /\ [][NextBatch]_vars

(***************************************************************************)
(* SpecLive: one session of the threaded orchestrator from its start to    *)
(* the end of its worker, under fair scheduling of the worker thread       *)
(***************************************************************************)
\* the first start_full_video_analysis of the orchestrator
StartOnce == videos = <<>> /\ StartAnalysis

\* _finalize_analysis when video_repo.update raises: the except clause of
\* _finalize_analysis logs the error and the method returns
WorkerFinalizeFails(t) ==
  /\ workers[t].pc = "finalize"
  /\ WorkerMoves(t, "finally", NoWork)
  /\ UNCHANGED video_processor
  /\ WorkerOnly

\* the steps of the worker thread outside the loop body
WorkerRuns ==
  \E t \in DOMAIN workers :
    \/ WorkerOpen(t)
    \/ WorkerLoop(t)
    \/ WorkerHandleError(t)
    \/ WorkerFinalize(t)
    \/ WorkerFinalizeFails(t)
    \/ WorkerFinally(t)

\* the step of the worker past its inner loop, which is open to it whenever the
\* session is not paused
WorkerReads == \E t \in DOMAIN workers : WorkerRead(t)

\* the loop body on the frame read, with and without an exception
WorkerProcesses ==
  \E t \in DOMAIN workers : WorkerFrame(t) \/ WorkerStageRaises(t) \/ WorkerSinkFails(t)

\* what every pass through the loop body does to the thread: it is back at the
\* head of the loop or in the except clause
WorkerLeavesFrame ==
  \E t \in DOMAIN workers, pc \in {"loop", "error"} :
    workers[t].pc = "frame" /\ WorkerMoves(t, pc, NoWork)

NextLive ==
  \/ StartOnce
  \/ PauseAnalysis
  \/ ResumeAnalysis
  \/ StopAnalysis
  \/ StopJoined
  \/ StopTimedOut
  \/ WorkerRuns
  \/ WorkerReads
  \/ WorkerProcesses

\* a thread that can run does run, and a pass through the loop body comes to
\* its end; a thread that finds the session resumed again and again gets past
\* its inner loop; a session is not left paused
FairLive ==
  /\ WF_vars(WorkerRuns)
  /\ WF_workers(WorkerLeavesFrame)
  /\ SF_vars(WorkerReads)
  /\ WF_vars(is_paused /\ ResumeAnalysis)

SpecLive == InitOrch /\ [][NextLive]_vars /\ FairLive

(***************************************************************************)
(* Properties                                                              *)
(***************************************************************************)
LastSample(id) == tracking_history[id][Len(tracking_history[id])]
PrevSample(id) == tracking_history[id][Len(tracking_history[id]) - 1]
PosOf(sample) == <<sample[1], sample[2]>>

\* C1 (SpecTracker): once check_line_crossing has returned True for an id,
\* every later call for that id returns False, whatever the history, the line
\* and the direction of the call are, until reset()
C1_AtMostOnce ==
  \A id \in DOMAIN returned_true, l \in AllLines, direction \in Directions :
    ~CheckLineCrossingResult(id, l[1], l[2], direction, tracking_history, counted_ids)

\* an id already answered True has moved on, and its newest movement would
\* pass the intersection and direction tests of some call again
C1_Witness ==
  \E id \in DOMAIN returned_true \cap DOMAIN tracking_history :
    /\ returned_true[id]
    /\ \E l \in AllLines, direction \in Directions :
         CheckLineCrossingResult(id, l[1], l[2], direction, tracking_history, {})

\* C3 (SpecTracker): when one object is detected in two consecutive frames and
\* its center moved less than 50px, update_tracks gives it the same id
C3_IdStability ==
  [][(/\ clock' > clock
      /\ Len(tracked) = 1 /\ Len(tracked') = 1
      /\ tracked[1].center # NoCenter /\ tracked'[1].center # NoCenter
      /\ Dist2(tracked[1].center, tracked'[1].center) < MatchThreshold * MatchThreshold)
     => tracked'[1].id = tracked[1].id]_vars

\* one id only was ever issued, and its history holds two samples taken at
\* different times and places
C3_Witness ==
  /\ next_id = 2 /\ Len(tracked) = 1 /\ tracked[1].id = 1
  /\ 1 \in DOMAIN tracking_history /\ Len(tracking_history[1]) >= 2
  /\ PrevSample(1)[3] < LastSample(1)[3]
  /\ PosOf(PrevSample(1)) # PosOf(LastSample(1))

\* C4 (Spec): check_line_crossing never returns True for a movement that is
\* not strictly positive along the direction of the call; every vehicle the
\* monitor counted, seen before it moves on, moved along the configured
\* direction, and the monitor's total numbers exactly the vehicles so counted
C4_MovedAlong(direction, id) ==
  /\ id \in DOMAIN tracking_history /\ Len(tracking_history[id]) >= 2
  /\ PositiveAlong(direction, PosOf(PrevSample(id)), PosOf(LastSample(id)))

C4_DirectionGating ==
  /\ \A id \in DOMAIN tracking_history,
        l \in AllLines \cup {<<virtual_line[1], virtual_line[2]>>}, direction \in Directions :
       CheckLineCrossingResult(id, l[1], l[2], direction, tracking_history, {})
         => C4_MovedAlong(direction, id)
  /\ \A id \in DOMAIN returned_true :
       (id \in DOMAIN tracking_history /\ ~returned_true[id])
         => C4_MovedAlong(virtual_line[3], id)
  /\ traffic_data.total_vehicles = Cardinality(DOMAIN returned_true)

\* the monitor has just processed a vehicle whose movement went through the
\* line against the configured direction, and the vehicle is not counted
C4_Witness ==
  /\ stage = "anomaly" /\ Len(tracked) = 1
  /\ tracked[1].class_name \in VehicleClasses
  /\ LET id == tracked[1].id IN
       /\ id \in DOMAIN tracking_history /\ Len(tracking_history[id]) >= 2
       /\ ProperCrossing(PosOf(PrevSample(id)), PosOf(LastSample(id)),
                         virtual_line[1], virtual_line[2])
       /\ ~PositiveAlong(virtual_line[3], PosOf(PrevSample(id)), PosOf(LastSample(id)))
       /\ id \notin counted_ids
       /\ traffic_data.total_vehicles = 0

\* C5 (Spec): in a detect_anomalies call, a vehicle the tracker reports
\* stopped and that already has an entry in stopped_vehicles yields a
\* stopped_vehicle anomaly iff timestamp - start_time > stop_time_threshold;
\* the record has severity high and its message carries the whole seconds
\* elapsed followed by "s"; one record per such detection, on every frame
C5_StoppedRecords(anomalies, id) ==
  {i \in 1..Len(anomalies) : anomalies[i].type = "stopped_vehicle" /\ anomalies[i].object_id = id}

C5_DwellAlert ==
  stage = "anomaly" =>
    LET r == DetectAnomaliesResult(tracked, tracking_history, stopped_vehicles, clock)
        limit == stop_time_threshold * TicksPerSec
    IN \A i \in 1..Len(r.checks) :
         LET c == r.checks[i]
             elapsed == clock - c.start_time
         IN (c.stopped /\ c.had_entry) =>
              /\ elapsed > limit => Len(c.out) = 1
              /\ elapsed <= limit => c.out = <<>>
              /\ Cardinality(C5_StoppedRecords(r.anomalies, c.id)) = Len(c.out)
              /\ c.out # <<>> =>
                   /\ c.out[1].type = "stopped_vehicle"
                   /\ c.out[1].severity = "high"
                   /\ c.out[1].object_id = c.id
                   /\ c.out[1].timestamp = clock
                   /\ c.out[1].message[4] = "s"
                   /\ \E n \in 0..MaxTime :
                        /\ n * TicksPerSec <= elapsed /\ elapsed < (n + 1) * TicksPerSec
                        /\ c.out[1].message[3] = n

\* a stopped vehicle is alerted in a frame, and it was already over the
\* threshold one tick earlier
C5_Witness ==
  /\ stage = "anomaly"
  /\ LET r == DetectAnomaliesResult(tracked, tracking_history, stopped_vehicles, clock)
     IN \E i \in 1..Len(r.checks) :
          /\ r.checks[i].stopped /\ r.checks[i].had_entry
          /\ r.checks[i].out # <<>>
          /\ clock - r.checks[i].start_time > stop_time_threshold * TicksPerSec + 1

\* C7 (Spec): an id seen as one vehicle type whose consecutive centers crossed
\* the line once in the configured direction is counted exactly once, as that
\* type; total_vehicles and the type counters hold exactly those counts,
\* so no other counter moves
C7_Credits(c) ==
  Cardinality({q \in UNION {{<<id, i>> : i \in 1..Len(credit[id])} : id \in DOMAIN credit} :
                 credit[q[1]][q[2]] = c})

C7_EndToEndCrossing ==
  stage # "monitor" =>
    /\ \A id \in DOMAIN forward :
         (Len(forward[id]) = 1 /\ forward[id][1] \in VehicleClasses)
           => (id \in DOMAIN credit /\ credit[id] = forward[id])
    /\ traffic_data.car_count = C7_Credits("car")
    /\ traffic_data.motorbike_count = C7_Credits("motorbike")
    /\ traffic_data.truck_count = C7_Credits("truck")
    /\ traffic_data.bus_count = C7_Credits("bus")
    /\ traffic_data.total_vehicles =
         C7_Credits("car") + C7_Credits("motorbike") + C7_Credits("truck") + C7_Credits("bus")

\* a truck crossed once, was counted once, and was tracked on under the same
\* id in a later frame
C7_Witness ==
  /\ stage # "monitor"
  /\ \E id \in DOMAIN forward \cap DOMAIN credit \cap DOMAIN tracking_history :
       /\ forward[id] = <<"truck">> /\ credit[id] = <<"truck">>
       /\ returned_true[id]
       /\ traffic_data.truck_count = 1 /\ traffic_data.total_vehicles = 1

\* C8 (SpecTracker): a track's history never holds more than max_history
\* samples and holds exactly max_history once more than that were applied;
\* every update_tracks call leaves each track with the latest max_history
\* of its old samples followed by the new ones, in arrival order
C8_NewSamples(id) ==
  LET mine == SelectSeq(tracked', LAMBDA d : d.id = id /\ d.center # NoCenter)
  IN [i \in 1..Len(mine) |-> <<mine[i].center[1], mine[i].center[2], clock'>>]

C8_HistoryBound ==
  /\ [](\A id \in DOMAIN tracking_history :
          /\ Len(tracking_history[id]) <= max_history
          /\ id \in DOMAIN arrivals
          /\ arrivals[id] > max_history => Len(tracking_history[id]) = max_history)
  /\ [][clock' > clock =>
          \A id \in DOMAIN tracking_history' :
            LET old == IF id \in DOMAIN tracking_history THEN tracking_history[id] ELSE <<>>
            IN tracking_history'[id] = LastN(old \o C8_NewSamples(id), max_history)]_vars

\* more than max_history samples were applied to a track, so its oldest
\* sample was evicted
C8_Witness ==
  \E id \in DOMAIN tracking_history :
    /\ arrivals[id] > max_history
    /\ PosOf(PrevSample(id)) # PosOf(LastSample(id))

\* C9 (SpecTracker): after update_tracks(detections, t) no track whose last
\* sample is more than max_age older than t is left in tracking_history or
\* in last_positions
C9_Fresh(id) ==
  /\ id \in DOMAIN tracking_history
  /\ clock - LastSample(id)[3] <= max_age * TicksPerSec

C9_StalePurge ==
  /\ \A id \in DOMAIN tracking_history : C9_Fresh(id)
  /\ \A id \in DictKeys(last_positions) : C9_Fresh(id)

\* an id issued earlier has been purged while another track is alive
C9_Witness ==
  /\ tracking_history # <<>>
  /\ \E id \in 1..(next_id - 1) : id \notin DOMAIN tracking_history

\* C10 (Spec): right after reset() the tracker has no history, no last
\* positions, no counted id and issues obj_1 next; the monitor's total and
\* type counts are zero, its hourly map is empty and video_id is 0
C10_ResetCompleteness ==
  op.name = "reset" =>
    /\ tracking_history = <<>> /\ last_positions = <<>> /\ counted_ids = {}
    /\ \A frame \in PipelineFrames :
         (Len(frame) = 1 /\ frame[1].center # NoCenter) =>
           UpdateTracksResult(frame, clock + 1, tracking_history, last_positions,
                              next_id).dets[1].id = 1
    /\ traffic_data.total_vehicles = 0
    /\ traffic_data.car_count = 0 /\ traffic_data.motorbike_count = 0
    /\ traffic_data.truck_count = 0 /\ traffic_data.bus_count = 0
    /\ traffic_data.hourly_counts = <<>>
    /\ traffic_data.video_id = 0

\* reset() was called on components that all held data
C10_Witness == op.name = "reset" /\ op.dirty

\* C2 (SpecOrch): at most one worker thread is inside the frame pipeline,
\* holding a frame it runs detection, tracking, counting and anomaly detection
\* on, whatever start, pause, resume and stop calls the caller makes
C2_SingleWorker ==
  Cardinality({t \in DOMAIN workers : workers[t].pc = "frame"}) <= 1

\* C6 (SpecOrch): a start call made while is_analyzing returns -1, starts no
\* thread and changes neither the components, the counted ids, the queues,
\* the current video id nor the flags
C6_StartRejected ==
  [][(is_analyzing /\ call' # call /\ call'.name = "start")
     => /\ call'.ret = -1
        /\ UNCHANGED <<workers, analysis_thread, videos>>
        /\ UNCHANGED <<tracking_history, last_positions, next_id, counted_ids>>
        /\ UNCHANGED <<virtual_line, traffic_data, current_hour, stopped_vehicles>>
        /\ UNCHANGED <<orch_counted_ids, progress_queue, stats_queue, frame_queue>>
        /\ UNCHANGED <<current_video_id, is_analyzing, is_paused, should_stop>>]_vars

\* the latest start call returned -1 and the session is still analyzing, so
\* the call was made during it; the session has tracks, counted ids, queued
\* updates and a video id, and it is paused
C6_Witness ==
  /\ call.name = "start" /\ call.ret = -1
  /\ is_analyzing /\ is_paused
  /\ tracking_history # <<>> /\ orch_counted_ids # {}
  /\ progress_queue # <<>> /\ current_video_id # 0

\* no join of stop_analysis has timed out: every thread ran under the
\* is_analyzing flag of its own session
NoAbandoned == \A u \in DOMAIN workers : ~workers[u].abandoned

\* the session of thread t is the current one: no reset() since its start
CurrentSession(t) == t = analysis_thread /\ t = current_video_id

TerminalSnapshot(p) ==
  \/ p.status = "completed" /\ p.percent_complete = 100
  \/ p.status = "error"

\* C11 (SpecOrch): when the worker of a session has ended, by the end of the
\* stream, by stop or by an exception, the progress queue that
\* get_current_progress() reads holds exactly one terminal snapshot of the
\* session (completed with percent_complete = 100, or error), and it is the
\* last snapshot of the queue
C11_TerminalSnapshot ==
  \A t \in DOMAIN workers :
    (workers[t].pc = "done" /\ CurrentSession(t) /\ NoAbandoned)
      => /\ progress_queue # <<>>
         /\ TerminalSnapshot(progress_queue[Len(progress_queue)])
         /\ Cardinality({i \in DOMAIN progress_queue :
                           TerminalSnapshot(progress_queue[i])}) = 1

C13_SinkFailureFatal ==
  [][\A t \in DOMAIN workers : WorkerSinkFails(t) => workers'[t].pc = "error"]_vars

\* C14 (SpecOrch): a worker that stop_analysis found waiting in the paused loop,
\* where no frame is in flight, begins no frame after should_stop was set
C14_NoFrameAfterStop ==
  \A t \in DOMAIN workers : workers[t].woken => workers[t].pc # "frame"

OneTo(k) == [i \in 1..k |-> i]
FramesOf(q) == [i \in 1..Len(q) |-> q[i].current_frame]

\* the frames of the source the current session has processed so far are
\* 1, 2, ..., in this order, each once; all of them when it completed unstopped
C15_InOrder ==
  \A t \in DOMAIN workers :
    (CurrentSession(t) /\ NoAbandoned) =>
      /\ workers[t].pc \in {"loop", "read"}
           => FramesOf(progress_queue) = OneTo(video_processor.pos)
      /\ workers[t].pc = "frame"
           => /\ workers[t].work.frame_count = video_processor.pos
              /\ FramesOf(progress_queue) = OneTo(video_processor.pos - 1)
      /\ (workers[t].pc \in {"finally", "done"} /\ videos[t] = "completed" /\ ~should_stop)
           => FramesOf(progress_queue) = OneTo(Len(OrchVideo))

C16_IsHazardRecord(a) == a.type \in {"pedestrian", "animal", "obstacle"}
C16_IsHazard(d) ==
  d.class_name \in anomaly_classes.pedestrian \cup anomaly_classes.animal
                     \cup anomaly_classes.obstacle
C16_Type(class_name) ==
  IF class_name \in anomaly_classes.pedestrian THEN "pedestrian"
  ELSE IF class_name \in anomaly_classes.animal THEN "animal"
  ELSE "obstacle"
C16_Hazards(dets, th, sv) ==
  SelectSeq(DetectAnomaliesResult(dets, th, sv, clock).anomalies, C16_IsHazardRecord)

\* C16 (SpecDetector): the hazard records detect_anomalies returns for a frame
\* are, in the order of the detections, one record for each detection whose
\* class is in the pedestrian, animal or obstacle table, of the type of its
\* table and of severity medium; they are the same with an empty tracker and an
\* empty stopped_vehicles, so a hazard seen again is reported again
C16_HazardRecords ==
  stage = "anomaly" =>
    LET hz == C16_Hazards(tracked, tracking_history, stopped_vehicles)
        hd == SelectSeq(tracked, C16_IsHazard)
    IN /\ Len(hz) = Len(hd)
       /\ \A i \in 1..Len(hd) :
            /\ hz[i].type = C16_Type(hd[i].class_name)
            /\ hz[i].severity = "medium"
            /\ hz[i].object_id = hd[i].id
            /\ hz[i].object_class = hd[i].class_name
            /\ hz[i].timestamp = clock
       /\ hz = C16_Hazards(tracked, <<>>, <<>>)

\* a frame with an animal and an obstacle, both already seen in the frame before
C16_Witness ==
  /\ stage = "anomaly"
  /\ Len(tracked) = 2
  /\ \A i \in 1..2 :
       /\ tracked[i].class_name \in anomaly_classes.animal \cup anomaly_classes.obstacle
       /\ Len(tracking_history[tracked[i].id]) >= 2
  /\ tracked[1].class_name # tracked[2].class_name
  /\ Len(C16_Hazards(tracked, tracking_history, stopped_vehicles)) = 2

C17_Vehicle(d) == d.class_name \in {"car", "motorbike", "truck", "bus"}
C17_Call(dets, timestamp) ==
  ProcessFrameResult(dets, tracking_history, counted_ids, virtual_line, traffic_data, timestamp)

\* C17 (SpecMonitor): process_frame_detections gives the same totals, type
\* counts and hourly buckets, and the same ids answered True by
\* check_line_crossing, as it gives on the frame without its detections of
\* other classes than car, motorbike, truck and bus; every id it counts is
\* the id of a detection of one of these four classes
C17_ClassFilter ==
  stage = "monitor" =>
    \A timestamp \in MonitorTimes :
      LET r == C17_Call(tracked, timestamp)
          v == C17_Call(SelectSeq(tracked, C17_Vehicle), timestamp)
      IN /\ r.td = v.td
         /\ r.counted = v.counted
         /\ r.crossed = v.crossed
         /\ \A id \in r.counted \ counted_ids :
              \E i \in 1..Len(tracked) : C17_Vehicle(tracked[i]) /\ tracked[i].id = id

\* a pedestrian has walked over the line in the counting direction, so that
\* check_line_crossing would answer True for its id, and nothing is counted
C17_Witness ==
  /\ stage = "monitor"
  /\ \E i \in 1..Len(tracked) :
       /\ tracked[i].class_name = "person"
       /\ CheckLineCrossingResult(tracked[i].id, virtual_line[1], virtual_line[2],
                                  virtual_line[3], tracking_history, counted_ids)
       /\ C17_Call(tracked, HourTicks).td.total_vehicles = traffic_data.total_vehicles
       /\ C17_Call(tracked, HourTicks).counted = counted_ids

C18_Buckets ==
  /\ DOMAIN traffic_data.hourly_counts = DOMAIN visible
  /\ \A h \in DOMAIN visible : \A v \in VehicleClasses :
       traffic_data.hourly_counts[h][v] = visible[h][v]

\* C18 (SpecMonitor): hourly_counts[h][type] is the largest number of
\* detections of the type seen in one processed frame whose timestamp lies in
\* hour h, whether or not a line was crossed, and no bucket ever decreases
C18_HourlyMax ==
  /\ [](C18_Buckets)
  /\ [][\A h \in DOMAIN traffic_data.hourly_counts :
          /\ h \in DOMAIN traffic_data.hourly_counts'
          /\ \A v \in VehicleClasses :
               traffic_data.hourly_counts'[h][v] >= traffic_data.hourly_counts[h][v]]_vars

\* all frames were processed in the second hour; its bucket keeps the two
\* cars of an earlier frame although the frame processed last showed one, and
\* one car was counted at the line
C18_Witness ==
  /\ stage = "track"
  /\ DOMAIN traffic_data.hourly_counts = {1}
  /\ traffic_data.hourly_counts[1].car = 2
  /\ VisibleCount(tracked, "car") = 1
  /\ traffic_data.total_vehicles = 1

C20_Reference(n) ==
  IF n < 5 THEN "low"
  ELSE IF 5 <= n /\ n <= 14 THEN "medium"
  ELSE IF 15 <= n /\ n <= 24 THEN "high"
  ELSE "very_high"

\* C20 (SpecDensity): get_density_level(n) is low for n < 5, medium for
\* 5 <= n <= 14, high for 15 <= n <= 24 and very_high for n >= 25, and the
\* call leaves the state of the monitor as it is
C20_DensityLevel ==
  /\ [](call.name = "get_density_level" => call.ret = C20_Reference(call.arg))
  /\ [][call' # call => UNCHANGED monitorVars]_vars

\* the answer at 25 vehicles, given by a monitor that has hourly buckets
C20_Witness ==
  /\ call.name = "get_density_level"
  /\ call.arg = 25
  /\ call.ret = "very_high"
  /\ traffic_data.hourly_counts # <<>>

\* the windows asked about, in ticks: none, one tick, one second, two seconds
C19_Windows == {0, 1, TicksPerSec, TicksPerSec + TicksPerSec}

\* the samples of a history that lie within the window of its newest sample
C19_Recent(h, window) ==
  LET keep == {i \in 1..Len(h) : h[Len(h)][3] - h[i][3] <= window}
      nth(k) == CHOOSE i \in keep : Cardinality({j \in keep : j < i}) = k - 1
  IN [k \in 1..Cardinality(keep) |-> h[nth(k)]]

C19_Sum(f) ==
  LET S[k \in 0..Len(f)] == IF k = 0 THEN 0 ELSE S[k - 1] + f[k]
  IN S[Len(f)]

\* the rule of the claim
C19_Reference(id, window) ==
  IF id \notin DOMAIN tracking_history THEN UnknownMovement
  ELSE LET w == C19_Recent(tracking_history[id], window) IN
    IF Len(w) < 2 THEN UnknownMovement
    ELSE LET distance == C19_Sum([k \in 1..(Len(w) - 1) |-> ISqrt(Dist2(w[k], w[k + 1]))])
             elapsed == w[Len(w)][3] - w[1][3]
         IN IF elapsed = 0
            THEN [speed_num |-> 0, speed_den |-> 0, distance |-> distance, stopped |-> TRUE]
            ELSE [speed_num |-> distance * TicksPerSec, speed_den |-> elapsed,
                  distance |-> distance,
                  stopped |-> distance * TicksPerSec < 5 * elapsed]

C21_WellFormed(d) == d.bbox # NoBBox
C21_Raw(dets) == [i \in 1..Len(dets) |-> [dets[i] EXCEPT !.id = 0]]

\* the detections without a bbox of the frame tracked last have no center and
\* no id, and detect_anomalies reports the pedestrians among them at the
\* position unknown
C21_Reported ==
  stage = "anomaly" =>
    LET r == DetectAnomaliesResult(tracked, tracking_history, stopped_vehicles, clock)
        hz == SelectSeq(r.anomalies, C16_IsHazardRecord)
        hd == SelectSeq(tracked, C16_IsHazard)
    IN /\ Len(hz) = Len(hd)
       /\ \A i \in 1..Len(hd) :
            ~C21_WellFormed(hd[i]) =>
              /\ hd[i].center = NoCenter
              /\ hd[i].id = 0
              /\ hz[i].position = NoCenter
              /\ hz[i].bbox = NoBBox
              /\ hz[i].object_class = hd[i].class_name
              /\ hd[i].class_name = "person" =>
                   hz[i].type = "pedestrian" /\ hz[i].message[2].text = "unknown"

\* C21 (SpecDetector): a detection without a bbox has no center; update_tracks
\* leaves the tracker as it leaves it on the frame without that detection, so
\* it gets no track and no id; detect_anomalies returns its record with the
\* position unknown, which the message of a pedestrian spells out
C21_Malformed ==
  /\ [](C21_Reported)
  /\ [][(stage = "track" /\ stage' = "anomaly") =>
          LET raw == C21_Raw(tracked')
              u == UpdateTracksResult(SelectSeq(raw, C21_WellFormed), clock',
                                      tracking_history, last_positions, next_id)
          IN /\ tracking_history' = u.th
             /\ last_positions' = u.lp
             /\ next_id' = u.nid
             /\ SelectSeq(tracked', C21_WellFormed) = u.dets]_vars

\* a pedestrian without a bbox in front of a dog already tracked: the dog keeps
\* its track, no other track exists, and both are reported
C21_Witness ==
  /\ stage = "anomaly"
  /\ Len(tracked) = 2
  /\ ~C21_WellFormed(tracked[1]) /\ tracked[1].class_name = "person" /\ tracked[1].id = 0
  /\ tracked[2].id # 0
  /\ Len(tracking_history[tracked[2].id]) >= 2
  /\ DOMAIN tracking_history = {tracked[2].id}
  /\ Len(DetectAnomaliesResult(tracked, tracking_history, stopped_vehicles, clock).anomalies) = 2

\* C22 (SpecTracker): between resets counted_ids only grows, and it changes
\* only by the id of a check_line_crossing call that answers True; update_tracks
\* with its purge, get_movement_info and the calls that answer False leave it
\* as it is
C22_CountedGrows ==
  [][op'.name # "tracker_reset" =>
       /\ counted_ids \subseteq counted_ids'
       /\ (tracking_history' # tracking_history \/ clock' # clock) => counted_ids' = counted_ids
       /\ counted_ids' # counted_ids =>
            \E id \in DOMAIN tracking_history :
              /\ id \notin counted_ids
              /\ counted_ids' = counted_ids \cup {id}
              /\ \E l \in Lines, direction \in Directions :
                   CheckLineCrossingResult(id, l[1], l[2], direction,
                                           tracking_history, counted_ids)
              /\ UNCHANGED <<tracking_history, last_positions, next_id>>]_vars

\* a counted id whose track has moved on since the call that counted it, after
\* another track was purged by update_tracks
C22_Witness ==
  \E id \in counted_ids :
    /\ id \in DOMAIN tracking_history
    /\ id \in DOMAIN returned_true /\ returned_true[id]
    /\ \E other \in 1..(next_id - 1) : other # id /\ other \notin DOMAIN tracking_history

\* the frames the worker of the current session has gone through
C23_Processed ==
  IF analysis_thread \notin DOMAIN workers THEN 0
  ELSE LET w == workers[analysis_thread] IN
    IF w.pc = "open" THEN 0
    ELSE IF w.pc \in {"finalize", "finally", "done"} THEN Len(CurrentVideo)
    ELSE IF w.pc = "frame" THEN video_processor.pos - 1
    ELSE video_processor.pos

\* the analysis of the first n frames of the video, computed from the frames
\* alone: no queue is among its arguments
RECURSIVE C23_Analysis(_)
C23_Analysis(n) ==
  IF n = 0
  THEN [th |-> <<>>, lp |-> <<>>, nid |-> 1, counted |-> {}, mine |-> {}, sv |-> <<>>,
        events |-> {}, anomalies |-> {}, passed |-> <<>>, found |-> <<>>]
  ELSE LET s == C23_Analysis(n - 1)
           r == UpdateTracksResult(CurrentVideo[n], n - 1, s.th, s.lp, s.nid)
           c == CrossingLoop(r.dets, 1, r.th, virtual_line,
                  [counted |-> s.counted, mine |-> s.mine, events |-> <<>>])
           a == DetectAnomaliesResult(r.dets, r.th, s.sv, n - 1)
       IN [th |-> r.th, lp |-> r.lp, nid |-> r.nid, counted |-> c.counted, mine |-> c.mine,
           sv |-> a.sv,
           events |-> s.events \cup {<<c.events[i][1], c.events[i][2]>> : i \in 1..Len(c.events)},
           anomalies |-> s.anomalies \cup
                           {<<a.anomalies[i].type, a.anomalies[i].object_id,
                              a.anomalies[i].timestamp>> : i \in 1..Len(a.anomalies)},
           passed |-> Append(s.passed, Len(c.events)),
           found |-> Append(s.found, Len(a.anomalies))]

\* the state of tracker, monitor and detector and the records of the current
\* session are those of the analysis of the frames gone through
C23_SameResults ==
  current_video_id # 0 =>
    LET s == C23_Analysis(C23_Processed) IN
      /\ tracking_history = s.th
      /\ last_positions = s.lp
      /\ next_id = s.nid
      /\ counted_ids = s.counted
      /\ orch_counted_ids = s.mine
      /\ stopped_vehicles = s.sv
      /\ traffic_data = ResetTrafficData
      /\ {<<e[2], e[3]>> : e \in {x \in detection_events : x[1] = current_video_id}} = s.events
      /\ {<<e[2], e[3], e[4]>> : e \in {x \in anomaly_events : x[1] = current_video_id}} = s.anomalies

\* the frame queue holds frame numbers in rising order, each a multiple of the stride
C23_Offered ==
  /\ Len(frame_queue) <= FrameQueueSize
  /\ \A i \in 1..Len(frame_queue) :
       /\ frame_queue[i] % FrameStride = 0
       /\ i > 1 => frame_queue[i - 1] < frame_queue[i]

\* C23 (SpecChannels): the frame queue never holds more than 5 frames; the
\* worker offers every third frame only; when the queue is full the frame is
\* dropped, the queue is left as it is and the pass through the loop body ends
\* at the loop test as every other; the results of the analysis are those
\* computed from the frames alone, whatever was displayed
C23_LossyDisplay ==
  /\ [](C23_Offered /\ C23_SameResults)
  /\ [][\A t \in DOMAIN workers :
          (workers[t].pc = "frame" /\ workers'[t].pc # "frame") =>
            LET n == workers[t].work.frame_count IN
              /\ workers'[t].pc = "loop"
              /\ frame_queue' =
                   IF n % FrameStride # 0 \/ Len(frame_queue) = FrameQueueSize
                   THEN frame_queue
                   ELSE Append(frame_queue, n)]_vars

\* the session is over, the queue is full of the frames 3 to 15, and frame 18
\* was dropped
C23_Witness ==
  /\ analysis_thread \in DOMAIN workers
  /\ workers[analysis_thread].pc = "done"
  /\ Len(progress_queue) = Len(DisplayVideo)
  /\ Len(frame_queue) = FrameQueueSize
  /\ frame_queue[FrameQueueSize] = Len(DisplayVideo) - FrameStride
  /\ detection_events # {} /\ anomaly_events # {}

\* the newest progress and stats snapshot handed to the controller in this session
C24_Seen == IF call.name = "poll" THEN call.seen ELSE 0
C24_Total == IF call.name = "poll" THEN call.total ELSE 0

\* the snapshots not yet handed out are, in order, those of the frames after
\* the newest one handed out up to the newest one gone through, one progress
\* and one stats snapshot for each
C24_Queued ==
  current_video_id # 0 =>
    /\ Len(progress_queue) = Len(stats_queue)
    /\ C24_Seen + Len(progress_queue) = C23_Processed
    /\ \A i \in 1..Len(progress_queue) :
         LET n == C24_Seen + i
             s == C23_Analysis(C23_Processed)
         IN /\ progress_queue[i].current_frame = n
            /\ progress_queue[i].total_frames = Len(CurrentVideo)
            /\ stats_queue[i].current_minute_count = s.passed[n]
            /\ stats_queue[i].anomalies_detected = s.found[n]
            /\ stats_queue[i].total_vehicles >= C24_Total
            /\ i > 1 => stats_queue[i].total_vehicles >= stats_queue[i - 1].total_vehicles

C25_OneClaimPerTrack ==
  /\ \A i, j \in 1..Len(tracked) :
       (i # j /\ tracked[i].id # 0) => tracked[i].id # tracked[j].id
  /\ \A id \in DOMAIN tracking_history :
       \A a, b \in 1..Len(tracking_history[id]) :
         a # b => tracking_history[id][a][3] # tracking_history[id][b][3]

\* the tracks of last_positions less than 50px from a center, and the nearest of them
C26_Candidates(center) ==
  {k \in 1..Len(last_positions) :
     Dist2(center, last_positions[k].pos) < MatchThreshold * MatchThreshold}
C26_Nearest(center) ==
  {last_positions[k].id : k \in
     {k \in C26_Candidates(center) :
        \A m \in C26_Candidates(center) :
          Dist2(center, last_positions[k].pos) <= Dist2(center, last_positions[m].pos)}}

\* C26 (SpecTracker): update_tracks gives a detection with a center the id of
\* the nearest track of last_positions when that is less than 50px away, and
\* otherwise the next number not yet issued, the numbers rising by one in the
\* order of the detections; the sample (x, y, timestamp) is in the history of
\* the id it was given
C26_MatchingRule ==
  [][clock' > clock =>
       LET fresh == {i \in 1..Len(tracked') :
                       tracked'[i].center # NoCenter /\ C26_Candidates(tracked'[i].center) = {}}
       IN /\ next_id' = next_id + Cardinality(fresh)
          /\ \A i \in 1..Len(tracked') :
               LET d == tracked'[i] IN
                 d.center # NoCenter =>
                   /\ i \notin fresh => d.id \in C26_Nearest(d.center)
                   /\ i \in fresh =>
                        d.id = next_id + Cardinality({j \in fresh : j < i})
                   /\ d.id \in DOMAIN tracking_history'
                   /\ \E a \in 1..Len(tracking_history'[d.id]) :
                        tracking_history'[d.id][a] = <<d.center[1], d.center[2], clock'>>]_vars

\* a detection exactly 50px from the one track of the frame before was given
\* the next number, and its history starts with its sample
C26_Witness ==
  /\ Len(tracked) = 1 /\ tracked[1].id = 2 /\ next_id = 3
  /\ tracking_history[2] = <<<<tracked[1].center[1], tracked[1].center[2], clock>>>>
  /\ 1 \in DOMAIN tracking_history
  /\ LastSample(1)[3] = clock - 1
  /\ Dist2(PosOf(LastSample(1)), tracked[1].center) = MatchThreshold * MatchThreshold

\* the tracks not purged whose newest sample is at most max_age old at time t
\* and less than 50px from a center
C27_Alive(center, t) ==
  {id \in DOMAIN tracking_history :
     /\ t - LastSample(id)[3] <= max_age * TicksPerSec
     /\ Dist2(PosOf(LastSample(id)), center) < MatchThreshold * MatchThreshold}

\* C27 (SpecTracker): a track stays a match candidate until it is purged: a
\* single detection less than 50px from the newest sample of a track that is
\* at most max_age old is given the id of such a track, also when the track
\* was not matched in the frames between
C27_CandidateUntilPurged ==
  [][(clock' > clock /\ Len(tracked') = 1 /\ tracked'[1].center # NoCenter
      /\ C27_Alive(tracked'[1].center, clock') # {})
     => tracked'[1].id \in C27_Alive(tracked'[1].center, clock')]_vars

\* C28 (Spec): stopped_vehicles holds an entry only for an id whose track
\* exists: once a frame has gone through tracker and detector, no entry is left
\* for an id the tracker has purged
C28_EntryHasTrack ==
  stage = "track" => DOMAIN stopped_vehicles \subseteq DOMAIN tracking_history

\* the vehicles among the detections tracked last
C29_Vehicles == {i \in 1..Len(tracked) : tracked[i].class_name \in VehicleClasses}

\* C29 (Spec): the start_time of an entry of stopped_vehicles is the timestamp
\* of the first frame of the run of stopped reports the id is in: a stopped
\* report for an id without entry creates the entry with the frame's timestamp
\* and no stopped_vehicle record, a stopped report for an id with an entry
\* leaves the start_time, a moving report removes the entry, and the entries of
\* the ids not reported in the frame stay as they are
C29_DwellStart ==
  [][(stage = "anomaly" /\ stage' = "track") =>
       LET r == DetectAnomaliesResult(tracked, tracking_history, stopped_vehicles, clock)
           ids == {tracked[i].id : i \in C29_Vehicles}
       IN /\ \A i \in C29_Vehicles :
               LET id == tracked[i].id IN
                 IF get_movement_info(id, time_window * TicksPerSec, tracking_history).stopped
                 THEN /\ id \in DOMAIN stopped_vehicles'
                      /\ stopped_vehicles'[id].start_time =
                           IF id \in DOMAIN stopped_vehicles
                           THEN stopped_vehicles[id].start_time ELSE clock
                      /\ id \notin DOMAIN stopped_vehicles =>
                           C5_StoppedRecords(r.anomalies, id) = {}
                 ELSE id \notin DOMAIN stopped_vehicles'
          /\ DOMAIN stopped_vehicles' \subseteq DOMAIN stopped_vehicles \cup ids
          /\ \A id \in DOMAIN stopped_vehicles \ ids :
               id \in DOMAIN stopped_vehicles' /\ stopped_vehicles'[id] = stopped_vehicles[id]]_vars

\* the one vehicle ever tracked was seen in three frames: it came, moved on,
\* which removed its first entry, and stood still in the third, whose timestamp
\* is the start of its new dwell
C29_Witness ==
  /\ stage = "track" /\ next_id = 2 /\ clock > 2
  /\ Len(tracked) = 1 /\ tracked[1].id = 1 /\ tracked[1].class_name \in VehicleClasses
  /\ Len(tracking_history[1]) = 2
  /\ PosOf(PrevSample(1)) = PosOf(LastSample(1))
  /\ 1 \in DOMAIN stopped_vehicles
  /\ stopped_vehicles[1].start_time = clock
  /\ 1 \in DOMAIN arrivals /\ arrivals[1] > 2

\* the crossing records of a video, of all types and of one
C30_Records(v) == {e \in detection_events : e[1] = v}
C30_RecordsOf(v, type) == {e \in C30_Records(v) : e[3] = type}

\* C30 (SpecOrch): each counted crossing yields one crossing record: when the
\* worker of a session that was not stopped finalizes it, the aggregate it
\* writes from the monitor's statistics carries as total_vehicles the number of
\* crossing records of the video, and as count of each type the number of
\* records of that type
C30_RecordsMatchAggregate ==
  [][\A t \in DOMAIN workers :
       (/\ workers[t].pc = "finalize" /\ workers'[t].pc = "finally"
        /\ t = analysis_thread /\ current_video_id = t /\ ~should_stop)
       => /\ traffic_data.total_vehicles = Cardinality(C30_Records(t))
          /\ traffic_data.car_count = Cardinality(C30_RecordsOf(t, "car"))
          /\ traffic_data.motorbike_count = Cardinality(C30_RecordsOf(t, "motorbike"))
          /\ traffic_data.truck_count = Cardinality(C30_RecordsOf(t, "truck"))
          /\ traffic_data.bus_count = Cardinality(C30_RecordsOf(t, "bus"))]_vars

\* the count of a type over the minutes in S
RECURSIVE C31_Sum(_, _)
C31_Sum(S, v) ==
  IF S = {} THEN 0
  ELSE LET m == CHOOSE x \in S : TRUE
       IN minute_aggregations[m][v] + C31_Sum(S \ {m}, v)

\* C31 (SpecBatch): the per-minute aggregation tracks the counted crossings:
\* after any sequence of processed frames the counts of a type, summed over
\* all minutes, are the monitor's count of that type
C31_MinuteSums ==
  /\ C31_Sum(DOMAIN minute_aggregations, "car") = traffic_data.car_count
  /\ C31_Sum(DOMAIN minute_aggregations, "motorbike") = traffic_data.motorbike_count
  /\ C31_Sum(DOMAIN minute_aggregations, "truck") = traffic_data.truck_count
  /\ C31_Sum(DOMAIN minute_aggregations, "bus") = traffic_data.bus_count

\* the records _add_to_batch makes of the alerts of the frame of the last call
C32_Records == AddAlerts(<<>>, call.alerts, current_video_id, clock)

\* the records handed to bulk_insert_anomalies so far, then those still batched
C32_Held == anomaly_repo \o anomaly_batch

\* C32 (SpecBatch): batched persistence loses and duplicates nothing. Over every
\* call of process_video the records handed to the bulk insert followed by the
\* records still batched grow by exactly the records of the anomalies that
\* detect_anomalies produced in the frame of the call, in their order, and
\* load_video hands nothing to the sink; a call that reaches finalization (it
\* is not ended by an exception) flushes after its frame and at the end of the
\* stream and leaves both batches empty, so that every record produced up to
\* then has been handed to the bulk insert exactly once
C32_NothingLostOrDuplicated ==
  /\ [][/\ call'.name = "process_video" => C32_Held' = C32_Held \o C32_Records'
        /\ call'.name = "load_video" =>
             anomaly_repo' = anomaly_repo /\ detection_repo' = detection_repo]_vars
  /\ [](call.name = "process_video" /\ call.outcome # "draw" =>
          detection_batch = <<>> /\ anomaly_batch = <<>>)

\* a call that reached finalization has handed over the record of its own frame
\* after the record that a failed call had left in the batch
C32_Witness ==
  /\ call.name = "process_video" /\ call.outcome = "ok"
  /\ call.alerts # <<>>
  /\ Len(anomaly_repo) >= 2
  /\ videos[current_video_id] = "completed"
  /\ anomaly_batch = <<>>

\* read_frame() has nothing more to hand out: the video is closed or at its end
C33_EndOfStream == ~video_processor.open \/ video_processor.pos >= Len(CurrentVideo)

\* C33 (SpecOrch): the record of a video is marked completed only when the frame
\* source has reported the end of the stream; a session that stop() ends before
\* the end of the stream is never marked completed
C33_CompletedOnlyAtEnd ==
  [][\A v \in DOMAIN videos :
       (videos[v] # "completed" /\ videos'[v] = "completed") => C33_EndOfStream]_vars

\* the positions of a worker inside the frame loop or in _finalize_analysis
C34_Working == {"loop", "read", "frame", "finalize"}

\* C34 (SpecOrch): is_processing(), which returns is_analyzing, is true in every
\* state in which a worker thread is still in the frame pipeline or in the
\* finalization, for every interleaving of stop_analysis with its join timeout,
\* start and the end of the worker
C34_ProcessingWhileWorking ==
  \A t \in DOMAIN workers : workers[t].pc \in C34_Working => is_analyzing

\* C35 (SpecLive): every started session terminates. Under fair scheduling and
\* with no pause left standing, the worker of a started session eventually
\* ends, is_processing() is eventually false, and the record of the video
\* eventually leaves the processing status for completed or error, also when
\* the finalization itself fails
C35_Terminates ==
  /\ (workers # <<>>) ~> (workers # <<>> /\ workers[1].pc = "done" /\ ~is_analyzing)
  /\ (videos # <<>>) ~> (videos # <<>> /\ videos[1] \in {"completed", "error"})

\* the part of C35 about the thread and the flag
C35_WorkerEnds == (workers # <<>>) ~> (workers # <<>> /\ workers[1].pc = "done" /\ ~is_analyzing)

\* C36 (Spec): with process_frame_detections as the only caller of
\* check_line_crossing, after any sequence of update_tracks and
\* process_frame_detections calls since the last reset of the components,
\* total_vehicles is the size of the tracker's counted_ids and the sum of the
\* four per-type counts
C36_CountsAgree ==
  /\ traffic_data.total_vehicles = Cardinality(counted_ids)
  /\ traffic_data.total_vehicles =
       traffic_data.car_count + traffic_data.motorbike_count
         + traffic_data.truck_count + traffic_data.bus_count

\* process_frame_detections has just counted the second of two vehicles
C36_Witness ==
  /\ stage = "anomaly"
  /\ traffic_data.total_vehicles = 2
  /\ Cardinality(counted_ids) = 2

\* the samples i and i + 1 of a history are at most the window of
\* get_movement_info (1.0 s) and more than no time apart, and the vehicle moved
\* at StoppedSpeed (5 px/s) or more between them
C37_MovingBetween(h, i) ==
  LET dt == h[i + 1][3] - h[i][3]
  IN /\ dt > 0 /\ dt <= time_window * TicksPerSec
     /\ Dist2(h[i], h[i + 1]) * TicksPerSec * TicksPerSec >= StoppedSpeed * StoppedSpeed * dt * dt

\* a vehicle that has moved continuously over all the frames its history holds
C37_Moving(id) ==
  /\ id \in DOMAIN tracking_history
  /\ \A i \in 1..(Len(tracking_history[id]) - 1) : C37_MovingBetween(tracking_history[id], i)

\* C37 (Spec): a continuously moving vehicle never raises a stopped-vehicle
\* alert. In every detect_anomalies call, a vehicle that has kept its id, was
\* seen in frames at most 1.0 s apart and moved at 5 px/s or more between every
\* two consecutive frames gets no stopped_vehicle anomaly, and from its second
\* frame on the call leaves it without an entry in stopped_vehicles, so that
\* no dwell time builds up however long the vehicle stays in view
C37_NoAlertWhileMoving ==
  [][(stage = "anomaly" /\ stage' = "track") =>
       LET r == DetectAnomaliesResult(tracked, tracking_history, stopped_vehicles, clock)
       IN \A i \in C29_Vehicles :
            LET id == tracked[i].id IN
              C37_Moving(id) =>
                /\ C5_StoppedRecords(r.anomalies, id) = {}
                /\ Len(tracking_history[id]) >= 2 => id \notin DOMAIN stopped_vehicles']_vars

\* a truck in its third frame or later, seen 0.5 s and then 1.0 s after the frame
\* before and 30 px further each time; detect_anomalies has just passed it
C37_Witness ==
  /\ stage = "track" /\ clock >= 1 + time_window * TicksPerSec
  /\ Len(tracked) = 1 /\ tracked[1].class_name = "truck" /\ tracked[1].id = 1
  /\ C37_Moving(1)
  /\ Len(tracking_history[1]) = max_history
  /\ LastSample(1)[3] = clock
  /\ clock - PrevSample(1)[3] = time_window * TicksPerSec
  /\ arrivals[1] > 2
  /\ 1 \notin DOMAIN stopped_vehicles

\* the ids update_tracks has just issued: those of the detections of the frame
\* that matched no track of last_positions
C38_Fresh ==
  {tracked'[i].id : i \in 1..Len(tracked')} \ ({0} \cup DictKeys(last_positions))

\* C38 (SpecTracker): track ids are never reused between two resets. Every id
\* of the tracker, in the histories, in last_positions or in counted_ids, is
\* below next_id, which never decreases but in reset(); every update_tracks
\* call issues one id per unmatched detection, each at or above the next_id
\* before the call, so different from every id issued before, the ids of purged
\* tracks included, and neither in counted_ids nor with a history
C38_IdsNeverReused ==
  /\ [](\A id \in DOMAIN tracking_history \cup DictKeys(last_positions) \cup counted_ids :
          id > 0 /\ id < next_id)
  /\ [][/\ op'.name \notin {"reset", "tracker_reset"} => next_id' >= next_id
        /\ clock' > clock =>
             /\ Cardinality(C38_Fresh) = next_id' - next_id
             /\ \A id \in C38_Fresh :
                  /\ id >= next_id /\ id < next_id'
                  /\ id \notin counted_ids
                  /\ id \notin DOMAIN tracking_history]_vars

\* the track with id 1 was purged in the call that issued the id 2 to the
\* vehicle that came after it
C38_Witness ==
  /\ next_id = 3
  /\ DOMAIN tracking_history = {2}
  /\ DictKeys(last_positions) = {2}
  /\ Len(tracked) = 1 /\ tracked[1].id = 2

\* C39 (SpecTracker): after every update_tracks call the keys of last_positions
\* are keys of tracking_history, and every id of last_positions has a history
\* whose newest sample carries the timestamp of the call and the position that
\* last_positions stores for the id; this stays so until the next call
C39_PositionsMatchHistory ==
  \A i \in 1..Len(last_positions) :
    LET e == last_positions[i] IN
      /\ e.id \in DOMAIN tracking_history
      /\ LastSample(e.id) = <<e.pos[1], e.pos[2], clock>>

\* two detections of one frame were matched to the same track: the position
\* stored and the newest sample are those of the second, and the track holds
\* both samples of the call
C39_Witness ==
  /\ Len(tracked) = 2
  /\ tracked[1].id = 1 /\ tracked[2].id = 1
  /\ tracked[1].center # tracked[2].center
  /\ last_positions = <<[id |-> 1, pos |-> tracked[2].center]>>
  /\ PrevSample(1)[3] = clock
  /\ PosOf(PrevSample(1)) = tracked[1].center

====
